---- MODULE Spec2Model ----
(***************************************************************************)
(* A model of the partition / style-resolution engine of the plotly        *)
(* express plugin: StyleManager (preprocess/StyleManager.py) and           *)
(* PartitionManager (plots/PartitionManager.py).                           *)
(*                                                                         *)
(* Python values are tagged records, so that values of different Python    *)
(* types can be compared: [t |-> "none"], [t |-> "str", v |-> text],       *)
(* [t |-> "int", n |-> n], [t |-> "tuple", e |-> elements], ...            *)
(***************************************************************************)
EXTENDS Integers, Sequences, FiniteSets, TLC

VARIABLES sm, last, order, lm, call, pm, cf, drawlog, hp, ly

vars == <<sm, last, order, lm, call, pm, cf, drawlog, hp, ly>>

(***************************************************************************)
(* Bounds                                                                  *)
(***************************************************************************)
\* number of distinct keys one StyleManager is asked about
MaxDistinct == 3
\* length of the longest style list a StyleManager is built with
MaxPalette == 3
\* number of rows of the longest table converted to long mode
MaxRows == 2

(***************************************************************************)
(* Python values                                                           *)
(***************************************************************************)
None == [t |-> "none"]
Str(text) == [t |-> "str", v |-> text]
IntKey(n) == [t |-> "int", n |-> n]
TupleKey(elems) == [t |-> "tuple", e |-> elems]
DictVal(f) == [t |-> "dict", d |-> f]
ListVal(q) == [t |-> "list", s |-> q]

\* the empty TLA+ function, used for the empty dict
EmptyFn == [k \in {} |-> None]

\* bool(x) of Python for the values used here
Truthy(x) ==
    CASE x.t = "none" -> FALSE
      [] x.t = "dict" -> DOMAIN x.d # {}
      [] x.t = "list" -> x.s # <<>>
      [] x.t = "str" -> x.v # ""
      [] x.t = "tuple" -> x.e # <<>>
      [] x.t = "int" -> x.n # 0
      [] OTHER -> TRUE

\* len(x) is defined for str and tuple, and raises TypeError for an int
HasLen(x) == x.t \in {"str", "tuple"}
PyLen(x) == IF x.t = "str" THEN Len(x.v) ELSE Len(x.e)
\* x[0] where len(x) == 1: a one-character str is its own first character,
\* a one-element tuple gives its element
PyFirst(x) == IF x.t = "str" THEN x ELSE x.e[1]

(***************************************************************************)
(* The idle values of the state of each component                          *)
(***************************************************************************)
\* no assign_style call was made yet
NoCall == [key |-> None, ret |-> None, raised |-> "init", repeat |-> FALSE]

\* no conversion to long mode is under way
NoLong == [pc |-> "none"]

\* no chart call, no PartitionManager
NoChart == [args |-> EmptyFn, groups |-> {}]
NoManager == [pc |-> "none"]

\* no HistPreprocesser was built
NoHist == [pc |-> "none"]

\* layer was not called
NoLayer == [pc |-> "none"]

\* create_figure was not called: no figure drawn, no trace generator
NoFigure ==
    [pc |-> "new", i |-> 0, trace_generator |-> None, figs |-> <<>>,
     prelog |-> <<>>, raised |-> "no", has_color |-> None]

(***************************************************************************)
(* StyleManager                                                            *)
(***************************************************************************)
\* StyleManager.__init__: a non-list ls is wrapped in a list, the cycle
\* starts at the first element and the memo is empty.  cycled is the number
\* of next() calls made on cycle(self.ls), modulo len(self.ls).
StyleManager_init(ls, map) ==
    [ls |-> IF ls.t = "list" THEN ls.s ELSE <<ls>>,
     map |-> map,
     cycled |-> 0,
     found |-> EmptyFn]

\* next(self.cycled) on a non-empty list: the value and the advanced cycle
CycleNext(self) ==
    [val |-> self.ls[self.cycled + 1],
     cycled |-> (self.cycled + 1) % Len(self.ls)]

\* `self.map and val in self.map`
InMap(self, val) == Truthy(self.map) /\ val \in DOMAIN self.map.d

\* assign_style without the memo test: every call assigns again
assign_style_NoMemo(self, val) ==
    IF self.ls = <<>>
    THEN [sm |-> self, ret |-> None, raised |-> "StopIteration"]
    ELSE LET nxt == CycleNext(self)
             adv == [self EXCEPT !.cycled = nxt.cycled]
             new_val == IF InMap(self, val) THEN self.map.d[val] ELSE nxt.val
         IN [sm |-> [adv EXCEPT !.found = (val :> new_val) @@ @],
             ret |-> new_val, raised |-> "no"]

\* assign_style with a palette that does not wrap around: past the end the
\* last value is used again
assign_style_NoWrap(self, val) ==
    IF val \in DOMAIN self.found
    THEN [sm |-> self, ret |-> self.found[val], raised |-> "no"]
    ELSE IF self.ls = <<>>
    THEN [sm |-> self, ret |-> None, raised |-> "StopIteration"]
    ELSE LET nxt == CycleNext(self)
             adv == [self EXCEPT !.cycled =
                         IF self.cycled + 1 < Len(self.ls) THEN self.cycled + 1 ELSE self.cycled]
             new_val == IF InMap(self, val) THEN self.map.d[val] ELSE nxt.val
         IN [sm |-> [adv EXCEPT !.found = (val :> new_val) @@ @],
             ret |-> new_val, raised |-> "no"]

\* assign_style with the two map lookups tried in the other order
assign_style_FirstElemFirst(self, val) ==
    IF val \in DOMAIN self.found
    THEN [sm |-> self, ret |-> self.found[val], raised |-> "no"]
    ELSE IF self.ls = <<>>
    THEN [sm |-> self, ret |-> None, raised |-> "StopIteration"]
    ELSE LET nxt == CycleNext(self)
             adv == [self EXCEPT !.cycled = nxt.cycled]
         IN IF Truthy(self.map) /\ HasLen(val) /\ PyLen(val) = 1
                /\ PyFirst(val) \in DOMAIN self.map.d
            THEN [sm |-> [adv EXCEPT !.found = (val :> self.map.d[PyFirst(val)]) @@ @],
                  ret |-> self.map.d[PyFirst(val)], raised |-> "no"]
            ELSE IF InMap(self, val)
            THEN [sm |-> [adv EXCEPT !.found = (val :> self.map.d[val]) @@ @],
                  ret |-> self.map.d[val], raised |-> "no"]
            ELSE IF Truthy(self.map) /\ ~HasLen(val)
            THEN [sm |-> adv, ret |-> None, raised |-> "TypeError"]
            ELSE [sm |-> [adv EXCEPT !.found = (val :> nxt.val) @@ @],
                  ret |-> nxt.val, raised |-> "no"]

\* StyleManager.assign_style(val): the new manager, the returned value and
\* the exception the call ends in ("no" when it returns).  The palette is
\* advanced before the map is consulted; an exception raised after that
\* leaves the cycle advanced and the memo unchanged.
assign_style(self, val) ==
    IF val \in DOMAIN self.found
    THEN [sm |-> self, ret |-> self.found[val], raised |-> "no"]
    ELSE IF self.ls = <<>>
    THEN [sm |-> self, ret |-> None, raised |-> "StopIteration"]
    ELSE LET nxt == CycleNext(self)
             adv == [self EXCEPT !.cycled = nxt.cycled]
         IN IF InMap(self, val)
            THEN [sm |-> [adv EXCEPT !.found = (val :> self.map.d[val]) @@ @],
                  ret |-> self.map.d[val], raised |-> "no"]
            ELSE IF Truthy(self.map) /\ ~HasLen(val)
            THEN [sm |-> adv, ret |-> None, raised |-> "TypeError"]
            ELSE IF Truthy(self.map) /\ PyLen(val) = 1
                    /\ PyFirst(val) \in DOMAIN self.map.d
            THEN [sm |-> [adv EXCEPT !.found = (val :> self.map.d[PyFirst(val)]) @@ @],
                  ret |-> self.map.d[PyFirst(val)], raised |-> "no"]
            ELSE [sm |-> [adv EXCEPT !.found = (val :> nxt.val) @@ @],
                  ret |-> nxt.val, raised |-> "no"]

(***************************************************************************)
(* Tables.  A table is [types |-> column name :> type name, rows |-> the   *)
(* sequence of its rows], a row being a function from the column names to  *)
(* the cell values.  The operators below are the table-engine calls the     *)
(* code makes.                                                             *)
(***************************************************************************)
Columns(table) == DOMAIN table.types

\* table.update_view("name = `text`"): a String column holding text in every row
update_view_literal(table, name, text) ==
    [types |-> [c \in Columns(table) \cup {name} |->
                   IF c = name THEN "String" ELSE table.types[c]],
     rows |-> [i \in 1..Len(table.rows) |->
                   [c \in Columns(table) \cup {name} |->
                       IF c = name THEN text ELSE table.rows[i][c]]]]

\* merge(tables): the rows of the tables one after the other
RECURSIVE merge(_)
merge(tables) ==
    IF Len(tables) = 1 THEN tables[1]
    ELSE [types |-> tables[1].types,
          rows |-> tables[1].rows \o merge(Tail(tables)).rows]

\* the value of `v == `c1` ? c1 : v == `c2` ? c2 : ... : cn` in one row;
\* chain is [variable, tests, otherwise] as build_ternary_chain makes it
RECURSIVE EvalTernary(_, _, _)
EvalTernary(row, chain, i) ==
    IF i > Len(chain.tests) THEN row[chain.otherwise]
    ELSE IF row[chain.variable] = chain.tests[i].literal THEN row[chain.tests[i].column]
    ELSE EvalTernary(row, chain, i + 1)

\* table.update_view(ternary chain): the column chain.target computed per row
update_view_ternary(table, chain) ==
    [types |-> [c \in Columns(table) \cup {chain.target} |->
                   IF c = chain.target THEN table.types[chain.otherwise]
                   ELSE table.types[c]],
     rows |-> [i \in 1..Len(table.rows) |->
                   [c \in Columns(table) \cup {chain.target} |->
                       IF c = chain.target THEN EvalTernary(table.rows[i], chain, 1)
                       ELSE table.rows[i][c]]]]

\* table.drop_columns(cols)
drop_columns(table, cols) ==
    LET keep == Columns(table) \ {cols[j] : j \in 1..Len(cols)}
    IN [types |-> [c \in keep |-> table.types[c]],
        rows |-> [i \in 1..Len(table.rows) |-> [c \in keep |-> table.rows[i][c]]]]

\* get_unique_names(table, names): every name is extended with "_" until it
\* is no column of the table
RECURSIVE unique_name(_, _)
unique_name(table, name) ==
    IF name \in Columns(table) THEN unique_name(table, name \o "_") ELSE name

get_unique_names(table, names) == [n \in names |-> unique_name(table, n)]

(***************************************************************************)
(* PartitionManager: conversion of a wide table to long mode               *)
(***************************************************************************)
\* build_ternary_chain with every test selecting the column after the one
\* it tests for
build_ternary_chain_OffByOne(pivot_vars, cols) ==
    [target |-> pivot_vars["value"],
     variable |-> pivot_vars["variable"],
     tests |-> [i \in 1..(Len(cols) - 1) |-> [literal |-> cols[i], column |-> cols[i + 1]]],
     otherwise |-> cols[Len(cols)]]

\* PartitionManager.build_ternary_chain: "value = variable == `c` ? c : "
\* for every column but the last, which is the fall-through value
build_ternary_chain(pivot_vars, cols) ==
    [target |-> pivot_vars["value"],
     variable |-> pivot_vars["variable"],
     tests |-> [i \in 1..(Len(cols) - 1) |-> [literal |-> cols[i], column |-> cols[i]]],
     otherwise |-> cols[Len(cols)]]

\* PartitionManager.to_long_mode: one tagged copy of the table per column,
\* merged, the value column computed, the wide columns dropped
to_long_mode(pivot_vars, table, cols) ==
    LET new_tables == [j \in 1..Len(cols) |->
                          update_view_literal(table, pivot_vars["variable"], cols[j])]
        merged == merge(new_tables)
        transposed == update_view_ternary(merged, build_ternary_chain(pivot_vars, cols))
    IN drop_columns(transposed, cols)

(***************************************************************************)
(* PartitionManager: the call arguments and the style resolution           *)
(***************************************************************************)
\* PARTITION_ARGS: the (sequence, map) argument names of a style attribute;
\* "by" has None
PARTITION_ARGS ==
    [arg \in {"by", "color", "pattern_shape", "symbol", "size", "line_dash", "width"} |->
        CASE arg = "by" -> <<>>
          [] arg = "color" -> <<"color_discrete_sequence", "color_discrete_map">>
          [] arg = "pattern_shape" -> <<"pattern_shape_sequence", "pattern_shape_map">>
          [] arg = "symbol" -> <<"symbol_sequence", "symbol_map">>
          [] arg = "size" -> <<"size_sequence", "size_map">>
          [] arg = "line_dash" -> <<"line_dash_sequence", "line_dash_map">>
          [] arg = "width" -> <<"width_sequence", "width_map">>]

FACET_ARGS == {"facet_row", "facet_col"}

NUMERIC_TYPES == {"short", "int", "long", "float", "double"}

\* STYLE_DEFAULTS: the default palette of every style attribute
STYLE_DEFAULTS ==
    [arg \in {"color", "symbol", "line_dash", "pattern_shape", "size", "width"} |->
        CASE arg = "color" ->
                ListVal(<<Str("#636EFA"), Str("#EF553B"), Str("#00CC96"), Str("#AB63FA"),
                          Str("#FFA15A"), Str("#19D3F3"), Str("#FF6692"), Str("#B6E880"),
                          Str("#FF97FF"), Str("#FECB52")>>)
          [] arg = "symbol" ->
                ListVal(<<Str("circle"), Str("diamond"), Str("square"), Str("x"), Str("cross")>>)
          [] arg = "line_dash" ->
                ListVal(<<Str("solid"), Str("dot"), Str("dash"), Str("longdash"),
                          Str("dashdot"), Str("longdashdot")>>)
          [] arg = "pattern_shape" ->
                ListVal(<<Str(""), Str("/"), Str("\\"), Str("x"), Str("+"), Str(".")>>)
          [] arg = "size" ->
                ListVal(<<IntKey(4), IntKey(5), IntKey(6), IntKey(7), IntKey(8), IntKey(9)>>)
          [] arg = "width" ->
                ListVal(<<IntKey(3), IntKey(4), IntKey(5), IntKey(6), IntKey(7), IntKey(8)>>)]

\* a Table and a PartitionedTable as argument values
TableVal(table) == [t |-> "table", tbl |-> table]
PartitionedTableVal(key_columns, constituents) ==
    [t |-> "ptable", key_columns |-> key_columns, constituent_tables |-> constituents]

\* dict operations on the call arguments
Get(args, k) == IF k \in DOMAIN args THEN args[k] ELSE None
Pop(args, k) == [x \in DOMAIN args \ {k} |-> args[x]]
Set(args, k, v) == [x \in DOMAIN args \cup {k} |-> IF x = k THEN v ELSE args[x]]

\* the call ends in the exception exc
Raise(self, exc) == [self EXCEPT !.raised = exc]

\* a Python bool
BoolVal(b) == [t |-> "bool", v |-> b]

\* a statement sequence: v is computed once and Rest continues on it
Then(v, Rest(_)) == CHOOSE r \in {Rest(x) : x \in {v}} : TRUE

\* numeric_column_set(table): the names of the columns of a numeric type
numeric_column_set(table) == {c \in Columns(table) : table.types[c] \in NUMERIC_TYPES}

\* `val in numeric_cols` hashes val, and a list is unhashable: for a
\* one-element list is_single_numeric_col raises TypeError
is_single_numeric_col_raises(val) == val.t = "list" /\ Len(val.s) = 1

\* PartitionManager.is_single_numeric_col, where it returns
is_single_numeric_col(val, numeric_cols) ==
    /\ val.t = "str" \/ Len(val.s) = 1
    /\ val.t = "str" /\ val.v \in numeric_cols

\* PartitionManager.is_by(arg, map_val)
is_by(self, arg, map_val) ==
    LET seq_arg == PARTITION_ARGS[arg][1]
        a1 == IF ~Truthy(self.args[seq_arg])
              THEN Set(self.args, seq_arg, STYLE_DEFAULTS[arg]) ELSE self.args
    IN IF "always_attached" \in self.groups
       THEN IF a1[arg].t = "list"
            THEN \* (arg, self.args[arg]) with a list is no dict key
                 Raise([self EXCEPT !.args = a1], "TypeError")
            ELSE LET tv == a1["table"]
                     table == IF tv.t = "table" THEN tv.tbl ELSE tv.constituent_tables[1]
                     new_col == get_unique_names(table, {arg})[arg]
                 IN [self EXCEPT
                        !.always_attached =
                            [k \in DOMAIN @ \cup {<<arg, a1[arg]>>} |->
                                IF k = <<arg, a1[arg]>>
                                THEN [map |-> map_val, ls |-> a1[seq_arg], new_col |-> new_col]
                                ELSE @[k]],
                        !.args = Pop(Set(a1, "attached_" \o arg, Str(new_col)), arg)]
       ELSE LET map_arg == PARTITION_ARGS[arg][2]
                map_v == a1[map_arg]
                a2 == IF map_v = Str("by") THEN Set(a1, map_arg, None) ELSE a1
                a3 == IF map_v.t = "tuple"
                      THEN Set(a2, map_arg, IF Len(map_v.e) = 2 THEN map_v.e[2] ELSE None)
                      ELSE a2
            IN [self EXCEPT !.args = Pop(Set(a3, arg \o "_by", a3[arg]), arg)]

\* `map_ == "by" or isinstance(map_, dict)`
MapForcesBy(map_) == map_ = Str("by") \/ map_.t = "dict"

\* `arg in self.by_vars` raises TypeError when by_vars was not given
InByVarsRaises(self) == self.by_vars.t = "none"
InByVars(self, arg) == arg \in self.by_vars.m

\* the last branch of every attribute: inherit the grouping column
InheritBy(self, arg) ==
    LET seq_name == PARTITION_ARGS[arg][1]
        plot_by_cols == Get(self.args, "by")
    IN IF ~Truthy(plot_by_cols) THEN self
       ELSE IF ~Truthy(Get(self.args, seq_name)) /\ InByVarsRaises(self)
       THEN Raise(self, "TypeError")
       ELSE IF Truthy(Get(self.args, seq_name)) \/ InByVars(self, arg)
       THEN LET a1 == IF ~Truthy(self.args[seq_name])
                      THEN Set(self.args, seq_name, STYLE_DEFAULTS[arg]) ELSE self.args
            IN [self EXCEPT !.args = Set(a1, arg \o "_by", plot_by_cols)]
       ELSE self

\* handle_plot_by_arg, arg == "color"
handle_color(self, val, numeric_cols) ==
    LET args == self.args
        map_ == args["color_discrete_map"]
        done ==
            IF MapForcesBy(map_) THEN is_by(self, "color", map_)
            ELSE IF map_ = Str("identity")
            THEN [self EXCEPT !.args =
                     Pop(Set(Pop(args, "color_discrete_map"), "attached_color", args["color"]),
                         "color")]
            ELSE IF Truthy(val) /\ is_single_numeric_col_raises(val)
            THEN Raise(self, "TypeError")
            ELSE IF Truthy(val) /\ is_single_numeric_col(val, numeric_cols)
                    /\ "color_continuous_scale" \in DOMAIN args
            THEN IF "always_attached" \in self.groups
                 THEN [self EXCEPT !.args = Pop(Set(args, "colors", args["color"]), "color")]
                 ELSE self
            ELSE IF Truthy(val) THEN is_by(self, "color", map_)
            ELSE InheritBy(self, "color")
    IN \* save whatever column is being used for colors for marginals
       IF done.raised # "no" THEN done
       ELSE [done EXCEPT !.marg_color = Get(done.args, "color_by")]

\* handle_plot_by_arg, arg == "size"
handle_size(self, val, numeric_cols) ==
    LET map_ == self.args["size_map"]
    IN IF MapForcesBy(map_) THEN is_by(self, "size", None)
       ELSE IF Truthy(val) /\ is_single_numeric_col_raises(val)
       THEN Raise(self, "TypeError")
       ELSE IF Truthy(val) /\ is_single_numeric_col(val, numeric_cols) THEN self
       ELSE IF Truthy(val) THEN is_by(self, "size", None)
       ELSE InheritBy(self, "size")

\* handle_plot_by_arg, arg in {"pattern_shape", "symbol", "line_dash", "width"}
handle_other(self, arg, val) ==
    LET map_name == PARTITION_ARGS[arg][2]
        map_ == self.args[map_name]
    IN IF MapForcesBy(map_) THEN is_by(self, arg, map_)
       ELSE IF map_ = Str("identity")
       THEN [self EXCEPT !.args =
                Pop(Set(Pop(self.args, map_name), "attached_" \o arg, self.args[arg]), arg)]
       ELSE IF Truthy(val) THEN is_by(self, arg, map_)
       ELSE InheritBy(self, arg)

\* PartitionManager.handle_plot_by_arg(arg, val): the manager after the
\* call; the call returns (arg + "_by", args.get(arg + "_by"))
handle_plot_by_arg(self, arg, val) ==
    LET tv == self.args["table"]
        table == IF tv.t = "table" THEN tv.tbl ELSE tv.constituent_tables[1]
        numeric_cols == numeric_column_set(table)
    IN CASE arg = "color" -> handle_color(self, val, numeric_cols)
         [] arg = "size" -> handle_size(self, val, numeric_cols)
         [] arg \in {"pattern_shape", "symbol", "line_dash", "width"} -> handle_other(self, arg, val)
         [] OTHER -> self

(***************************************************************************)
(* PartitionManager: partitioning                                          *)
(***************************************************************************)
\* the column names in a column argument (one name or a list of names)
ColNames(cols) ==
    IF cols.t = "list" THEN {cols.s[j].v : j \in 1..Len(cols.s)} ELSE {cols.v}
ColList(cols) ==
    IF cols.t = "list" THEN [j \in 1..Len(cols.s) |-> cols.s[j].v] ELSE <<cols.v>>

\* the key of a row: its values in the key columns
KeyOf(row, key_columns) == [c \in key_columns |-> row[c]]

\* the distinct keys of the rows, in the order of their first row
RECURSIVE DistinctKeys(_, _, _)
DistinctKeys(rows, key_columns, seen) ==
    IF rows = <<>> THEN seen
    ELSE LET k == KeyOf(Head(rows), key_columns)
         IN DistinctKeys(Tail(rows), key_columns,
                IF \E i \in 1..Len(seen) : seen[i] = k THEN seen ELSE Append(seen, k))

RowsWithKey(rows, key_columns, k) ==
    SelectSeq(rows, LAMBDA r : KeyOf(r, key_columns) = k)

\* table.partition_by(columns): one constituent per distinct key
partition_by(table, key_columns) ==
    LET keys == DistinctKeys(table.rows, key_columns, <<>>)
    IN PartitionedTableVal(key_columns,
          [i \in 1..Len(keys) |->
              [types |-> table.types, rows |-> RowsWithKey(table.rows, key_columns, keys[i])]])

\* a cell as a Python value
CellVal(table, row, c) ==
    IF table.types[c] \in NUMERIC_TYPES THEN IntKey(row[c]) ELSE Str(row[c])

\* get_partition_key_column_tuples over the distinct keys of a partitioned
\* table: one tuple of the values of `columns` per constituent
get_partition_key_column_tuples(ptable, columns) ==
    [i \in 1..Len(ptable.constituent_tables) |->
        LET ct == ptable.constituent_tables[i]
        IN TupleKey([j \in 1..Len(columns) |-> CellVal(ct, ct.rows[1], columns[j])])]

\* the composite style record that replaces a sequence argument
StyleRecord(ls, map, keys) == [t |-> "rec", ls |-> ls, map |-> map, keys |-> keys]

\* process_partitions, the loop over the style arguments of the partition
\* map: the sequence becomes {ls, map, keys}, arg_by and the map are popped
RECURSIVE attach_keys(_, _, _, _)
attach_keys(self, ptable, attrs, i) ==
    IF i > Len(attrs) \/ self.raised # "no" THEN self
    ELSE LET arg_by == attrs[i] \o "_by"
         IN IF arg_by \notin DOMAIN self.partition_map
            THEN attach_keys(self, ptable, attrs, i + 1)
            ELSE LET val == self.partition_map[arg_by]
                     sequence == PARTITION_ARGS[attrs[i]][1]
                     map_ == PARTITION_ARGS[attrs[i]][2]
                 IN IF ~(ColNames(val) \subseteq ptable.key_columns)
                    THEN Raise(self, "KeyError")
                    ELSE Then([self EXCEPT !.args =
                                  Pop(Pop(Set(@, sequence,
                                              StyleRecord(@[sequence], @[map_],
                                                  get_partition_key_column_tuples(ptable, ColList(val)))),
                                          arg_by),
                                      map_)],
                              LAMBDA s : attach_keys(s, ptable, attrs, i + 1))

\* Preprocesser.__init__ and prepare_preprocess: the preprocessor chosen
\* for the groups.  HistPreprocesser.__init__ takes args only and is called
\* with (args, pivot_vars); AttachedPreprocesser is built and dropped.
Preprocesser_init(self) ==
    IF "preprocess_hist" \in self.groups THEN Raise(self, "TypeError")
    ELSE IF "preprocess_freq" \in self.groups
    THEN \* UnivariatePreprocesser.__init__
         LET var == IF Truthy(self.args["x"]) THEN "x" ELSE "y"
         IN [self EXCEPT !.preprocesser = "freq",
                         !.args = Set(@, "orientation", Str(IF var = "y" THEN "h" ELSE "v"))]
    ELSE IF "always_attached" \in self.groups /\ DOMAIN self.always_attached # {}
    THEN self
    ELSE IF "preprocess_time" \in self.groups
    THEN [self EXCEPT !.preprocesser = "time"]
    ELSE self

\* the order in which the call arguments are listed in args
ArgOrder ==
    <<"table", "x", "y", "x_start", "x_end", "by", "by_vars",
      "color", "color_discrete_sequence", "color_discrete_map", "color_continuous_scale",
      "pattern_shape", "pattern_shape_sequence", "pattern_shape_map",
      "symbol", "symbol_sequence", "symbol_map",
      "size", "size_sequence", "size_map",
      "line_dash", "line_dash_sequence", "line_dash_map",
      "width", "width_sequence", "width_map",
      "facet_row", "facet_col", "current_var", "pivot_vars">>

StyleOrder == <<"color", "pattern_shape", "symbol", "size", "line_dash", "width">>

\* list(args.items()): the (arg, val) pairs when the loop starts
Items(args) ==
    LET present == SelectSeq(ArgOrder, LAMBDA k : k \in DOMAIN args)
    IN [i \in 1..Len(present) |-> [arg |-> present[i], val |-> args[present[i]]]]

\* process_partitions, one pass of the loop for a style argument: s1 is the
\* manager after handle_plot_by_arg, the call is logged and the columns it
\* returned are collected
collect_cols(self, s1, arg, val) ==
    LET arg_by == arg \o "_by"
        cols == Get(s1.args, arg_by)
        s2 == [s1 EXCEPT !.calls = Append(@,
                  [arg |-> arg, val |-> val, raised |-> s1.raised,
                   before |-> self.args, after |-> s1.args, cols |-> cols])]
    IN IF s1.raised = "no" /\ Truthy(cols)
       THEN [s2 EXCEPT !.partition_map = Set(@, arg_by, cols),
                       !.partition_cols = @ \cup ColNames(cols)]
       ELSE s2

\* process_partitions, the loop over the arguments: every style argument
\* is resolved by handle_plot_by_arg, the columns it returns and the facet
\* columns are collected
RECURSIVE resolve_items(_, _, _)
resolve_items(self, items, i) ==
    IF i > Len(items) \/ self.raised # "no" THEN self
    ELSE LET arg == items[i].arg
             val == items[i].val
         IN IF arg \in DOMAIN PARTITION_ARGS
               /\ (Truthy(val) \/ Truthy(Get(self.args, "by")))
            THEN Then(handle_plot_by_arg(self, arg, val), LAMBDA s1 :
                 Then(collect_cols(self, s1, arg, val), LAMBDA s3 :
                 resolve_items(s3, items, i + 1)))
            ELSE IF arg \in FACET_ARGS /\ Truthy(val)
            THEN Then([self EXCEPT !.partition_cols = @ \cup {val.v},
                                   !.facet_row = IF arg = "facet_row" THEN val ELSE @,
                                   !.facet_col = IF arg = "facet_row" THEN @ ELSE val],
                      LAMBDA s : resolve_items(s, items, i + 1))
            ELSE resolve_items(self, items, i + 1)

\* the columns of the by-group styles, and the facet columns
StyleColumns(self) ==
    UNION {ColNames(self.partition_map[k]) : k \in DOMAIN self.partition_map}
FacetColumns(self) == {f.v : f \in {self.facet_row, self.facet_col} \ {None}}

\* process_partitions splitting by the style columns only
split_table_StyleColumnsOnly(s2) ==
    IF s2.raised # "no" THEN s2
    ELSE IF s2.partition_cols # {}
    THEN LET tv == s2.args["table"]
         IN IF tv.t = "table" /\ ~(s2.partition_cols \subseteq Columns(tv.tbl))
            THEN \* the table engine refuses a column the table does not have
                 Raise(s2, "DHError")
            ELSE Then(IF tv.t = "ptable" THEN tv
                      ELSE partition_by(tv.tbl, s2.partition_cols \ FacetColumns(s2)), LAMBDA ptable :
                 Then(attach_keys([s2 EXCEPT !.splits =
                                      IF tv.t = "ptable" THEN @
                                      ELSE Append(@, s2.partition_cols \ FacetColumns(s2))],
                                  ptable, StyleOrder, 1), LAMBDA s4 :
                 IF s4.raised # "no" THEN s4
                 ELSE [s4 EXCEPT !.args = Pop(@, "by"), !.partitioned_table = ptable]))
    ELSE [s2 EXCEPT !.args = Pop(@, "by"), !.partitioned_table = s2.args["table"]]

\* process_partitions, after the loop over the arguments: the table is
\* split by the partition columns and the style records are built
split_table(s2) ==
    IF s2.raised # "no" THEN s2
    ELSE IF s2.partition_cols # {}
    THEN LET tv == s2.args["table"]
         IN IF tv.t = "table" /\ ~(s2.partition_cols \subseteq Columns(tv.tbl))
            THEN \* the table engine refuses a column the table does not have
                 Raise(s2, "DHError")
            ELSE Then(IF tv.t = "ptable" THEN tv
                      ELSE partition_by(tv.tbl, s2.partition_cols), LAMBDA ptable :
                 Then(attach_keys([s2 EXCEPT !.splits =
                                      IF tv.t = "ptable" THEN @
                                      ELSE Append(@, s2.partition_cols)],
                                  ptable, StyleOrder, 1), LAMBDA s4 :
                 IF s4.raised # "no" THEN s4
                 ELSE [s4 EXCEPT !.args = Pop(@, "by"), !.partitioned_table = ptable]))
    ELSE [s2 EXCEPT !.args = Pop(@, "by"), !.partitioned_table = s2.args["table"]]

\* PartitionManager.process_partitions
process_partitions(self) ==
    LET by_vars == Get(self.args, "by_vars")
    IN Then([self EXCEPT
                !.by_vars = IF Truthy(by_vars)
                            THEN [t |-> "set", m |-> ColNames(by_vars)] ELSE @,
                !.args = Pop(@, "by_vars")], LAMBDA s0 :
       Then(Items(s0.args), LAMBDA items :
       Then(resolve_items(s0, items, 1), LAMBDA s1 :
       \* preprocessor needs to be initialized after the always attached
       \* arguments are found
       Then(IF s1.raised # "no" THEN s1 ELSE Preprocesser_init(s1), LAMBDA s2 :
       split_table(s2)))))

\* PartitionManager.set_pivot_variables
set_pivot_variables(self) ==
    IF "supports_lists" \notin self.groups THEN self
    ELSE LET args == self.args
             table == args["table"]
         IN IF table.t = "ptable" THEN self
            ELSE IF args["x"].t # "list" /\ args["y"].t # "list"
            THEN [self EXCEPT !.groups = @ \ {"supports_lists"}]
            ELSE LET var == IF args["x"].t = "list" THEN "x" ELSE "y"
                     pivot_vars == get_unique_names(table.tbl, {"variable", "value"})
                 IN [self EXCEPT
                        !.list_var = var,
                        !.cols = ColList(args[var]),
                        !.pivot_vars = pivot_vars,
                        !.args = Set(Set(@, "current_var", Str(var)),
                                     "pivot_vars",
                                     DictVal([k \in DOMAIN pivot_vars |-> Str(pivot_vars[k])]))]

\* PartitionManager.convert_table_to_long_mode
convert_table_to_long_mode(self) ==
    IF "supports_lists" \notin self.groups THEN self
    ELSE LET args == self.args
             table == args["table"]
         IN IF table.t = "ptable" THEN self
            ELSE LET a1 == IF ~Truthy(Get(args, "by"))
                           THEN Set(args, "by", Str(self.pivot_vars["variable"])) ELSE args
                 IN [self EXCEPT !.args =
                        Set(a1, "table",
                            TableVal(to_long_mode(self.pivot_vars, table.tbl, self.cols)))]

\* PartitionManager.__init__(args, draw_figure, groups, marg_args, marg_func)
PartitionManager_init(args, groups) ==
    LET self == [args |-> args, groups |-> groups,
                 by_vars |-> None, list_var |-> "", cols |-> <<>>,
                 pivot_vars |-> EmptyFn, has_color |-> None,
                 facet_row |-> None, facet_col |-> None,
                 always_attached |-> EmptyFn, marg_color |-> None,
                 preprocesser |-> "none", partitioned_table |-> None,
                 partition_map |-> EmptyFn, partition_cols |-> {},
                 splits |-> <<>>, calls |-> <<>>, raised |-> "no"]
    IN Then(set_pivot_variables(self), LAMBDA s1 :
       Then(convert_table_to_long_mode(s1), LAMBDA s2 :
       process_partitions(s2)))

(***************************************************************************)
(* PartitionManager: the partition generator and create_figure             *)
(***************************************************************************)
\* time_length(start, end): nanoseconds to milliseconds
time_length(start, end) == (end - start) \div 1000000

\* TimePreprocesser.preprocess_partitioned_tables, one table: the view of
\* x_start, x_end, x_diff and y
time_update_view(table, x_start, x_end, x_diff, y) ==
    [types |-> [c \in Columns(table) \cup {x_diff} |->
                   IF c = x_diff THEN "long" ELSE table.types[c]],
     rows |-> [i \in 1..Len(table.rows) |->
                   [c \in Columns(table) \cup {x_diff} |->
                       IF c = x_diff
                       THEN time_length(table.rows[i][x_start], table.rows[i][x_end])
                       ELSE table.rows[i][c]]]]

\* the tables a manager draws: the constituents of the partitioned table,
\* or the base table
IsPartitioned(self) == self.partitioned_table.t = "ptable"
BaseTables(self) ==
    IF IsPartitioned(self) THEN self.partitioned_table.constituent_tables
    ELSE <<self.args["table"].tbl>>

\* partition_generator preprocesses the unpartitioned base table only for
\* these groups
PreprocessesBase(self) ==
    self.groups \cap {"preprocess_hist", "preprocess_freq", "preprocess_time"} # {}

\* Preprocesser.preprocess_partitioned_tables is reached by the generator
UsesPreprocesser(self) == IsPartitioned(self) \/ PreprocessesBase(self)

\* FreqPreprocesser.preprocess_partitioned_tables takes (column) and is
\* called with (tables, column): the first next() raises TypeError
GeneratorRaisesOnFirst(self) == UsesPreprocesser(self) /\ self.preprocesser = "freq"

\* the number of items the partition generator yields when nothing raises
GeneratorLength(self) == Len(BaseTables(self))

\* the key of the first constituent for every constituent
current_partition_First(self, i) ==
    LET ct == self.partitioned_table.constituent_tables[1]
    IN DictVal([c \in self.partitioned_table.key_columns |-> CellVal(ct, ct.rows[1], c)])

\* current_partition_generator: the key columns and key values of a constituent
current_partition(self, i) ==
    LET ct == self.partitioned_table.constituent_tables[i]
    IN DictVal([c \in self.partitioned_table.key_columns |-> CellVal(ct, ct.rows[1], c)])

\* partition_generator, the i-th item: the call arguments it yields
partition_generator(self, i) ==
    LET args == self.args
        base == BaseTables(self)[i]
        x_diff == get_unique_names(
                     IF args["table"].t = "ptable"
                     THEN args["table"].constituent_tables[1] ELSE args["table"].tbl,
                     {"x_diff"})["x_diff"]
        is_tuple == UsesPreprocesser(self) /\ self.preprocesser = "time"
        table == IF is_tuple
                 THEN time_update_view(base, args["x_start"].v, args["x_end"].v, x_diff, args["y"].v)
                 ELSE base
        a1 == IF is_tuple THEN Set(args, "x_diff", Str(x_diff))
              ELSE IF IsPartitioned(self) /\ DOMAIN self.pivot_vars # {}
                      /\ self.pivot_vars["value"] # ""
              THEN Set(args, self.list_var, Str(self.pivot_vars["value"]))
              ELSE args
        a2 == IF IsPartitioned(self)
              THEN Set(a1, "current_partition", current_partition(self, i)) ELSE a1
    IN IF IsPartitioned(self) \/ PreprocessesBase(self)
       THEN Set(a2, "table", TableVal(table)) ELSE args

\* create_figure with the generator of the latest figure kept
next_trace_generator_Latest(trace_generator, fig) == fig.trace_generator

\* create_figure: `if not trace_generator: trace_generator = fig.trace_generator`
next_trace_generator(trace_generator, fig) ==
    IF ~Truthy(trace_generator) THEN fig.trace_generator ELSE trace_generator

(***************************************************************************)
(* The chart calls                                                         *)
(***************************************************************************)
\* a table with two String and two numeric columns
ChartRows ==
    <<[g |-> "x", h |-> "p", n |-> 0, m |-> 1000000],
      [g |-> "y", h |-> "p", n |-> 1, m |-> 0],
      [g |-> "x", h |-> "q", n |-> 1, m |-> 2000000]>>
ChartTypes == [c \in {"g", "h", "n", "m"} |-> IF c \in {"g", "h"} THEN "String" ELSE "int"]
ChartTable(nrows) == [types |-> ChartTypes, rows |-> SubSeq(ChartRows, 1, nrows)]

UserPalette == ListVal(<<Str("red"), Str("blue")>>)
UserMap == DictVal([k \in {Str("x")} |-> Str("green")])
SeqInputs == {None, UserPalette}

NoStyle == [val |-> None, seq |-> None, map |-> None]
ColorInputs ==
    [val : {None, Str("g"), Str("n"), ListVal(<<Str("n")>>), ListVal(<<Str("g"), Str("h")>>)},
     seq : SeqInputs,
     map : {None, Str("by"), Str("identity"), UserMap}]
SizeInputs ==
    [val : {None, Str("g"), Str("n"), ListVal(<<Str("n")>>)},
     seq : SeqInputs,
     map : {None, Str("by"), Str("identity"), UserMap}]
OtherInputs ==
    [val : {None, Str("h")},
     seq : SeqInputs,
     map : {None, Str("by"), Str("identity")}]

\* the chart kinds: the groups of the chart function, its y argument, and
\* the tables it is called with
YList == ListVal(<<Str("n"), Str("m")>>)
Table3 == TableVal(ChartTable(3))
Table0 == TableVal(ChartTable(0))
TableByG == partition_by(ChartTable(3), {"g"})
ChartInputs ==
    {[groups |-> {}, y |-> Str("m"), table |-> t] : t \in {Table3, Table0, TableByG}}
    \cup {[groups |-> {"supports_lists"}, y |-> y, table |-> Table3] : y \in {Str("m"), YList}}
    \cup {[groups |-> {"supports_lists"}, y |-> YList, table |-> TableByG]}
    \cup {[groups |-> {"always_attached"}, y |-> Str("m"), table |-> t] : t \in {Table3, TableByG}}
    \cup {[groups |-> {"preprocess_hist", "supports_lists"}, y |-> YList, table |-> Table3]}
    \cup {[groups |-> {"preprocess_freq"}, y |-> Str("m"), table |-> t] : t \in {Table3, TableByG}}
    \cup {[groups |-> {"preprocess_time"}, y |-> Str("g"), table |-> t] :
             t \in {Table3, Table0, TableByG}}

\* the grouping arguments by and by_vars
ByInputs ==
    {[by |-> None, by_vars |-> Str("color")],
     [by |-> Str("g"), by_vars |-> None],
     [by |-> Str("g"), by_vars |-> Str("color")],
     [by |-> Str("g"), by_vars |-> ListVal(<<Str("size"), Str("symbol")>>)],
     [by |-> ListVal(<<Str("g"), Str("h")>>), by_vars |-> Str("color")]}

\* the arguments of one chart call
CallArgs(chart, grouping, style, ccs, facet_row) ==
    LET base ==
          [k \in {"table", "x", "y", "x_start", "x_end", "by", "by_vars",
                  "facet_row", "facet_col"}
                 \cup UNION {{a, PARTITION_ARGS[a][1], PARTITION_ARGS[a][2]} :
                                a \in DOMAIN STYLE_DEFAULTS} |->
              CASE k = "table" -> chart.table
                [] k = "x" -> Str("n")
                [] k = "y" -> chart.y
                [] k = "x_start" -> Str("n")
                [] k = "x_end" -> Str("m")
                [] k = "by" -> grouping.by
                [] k = "by_vars" -> grouping.by_vars
                [] k = "facet_row" -> facet_row
                [] k = "facet_col" -> None
                [] k \in DOMAIN STYLE_DEFAULTS -> style[k].val
                [] \E a \in DOMAIN STYLE_DEFAULTS : k = PARTITION_ARGS[a][1] ->
                      style[CHOOSE a \in DOMAIN STYLE_DEFAULTS : k = PARTITION_ARGS[a][1]].seq
                [] OTHER ->
                      style[CHOOSE a \in DOMAIN STYLE_DEFAULTS : k = PARTITION_ARGS[a][2]].map]
    IN IF ccs THEN Set(base, "color_continuous_scale", None) ELSE base

\* the style arguments of a call: one attribute takes any of its inputs;
\* besides, symbol or facet_row may name the column h
PlainStyle == [a \in DOMAIN STYLE_DEFAULTS |-> NoStyle]
StyleInputs ==
    {[st |-> [PlainStyle EXCEPT !["color"] = c], ccs |-> ccs] :
        c \in ColorInputs, ccs \in BOOLEAN}
    \cup {[st |-> [PlainStyle EXCEPT !["size"] = c], ccs |-> FALSE] : c \in SizeInputs}
    \cup {[st |-> [PlainStyle EXCEPT ![a] = c], ccs |-> FALSE] :
             a \in {"pattern_shape", "symbol", "line_dash", "width"}, c \in OtherInputs}

WithSymbol(st) ==
    IF st["symbol"] = NoStyle THEN [st EXCEPT !["symbol"] = [NoStyle EXCEPT !.val = Str("h")]]
    ELSE st

Calls ==
    {[args |-> CallArgs(chart, grouping,
                        IF second = "symbol" THEN WithSymbol(style.st) ELSE style.st,
                        style.ccs,
                        IF second = "facet_row" THEN Str("h") ELSE None),
      groups |-> chart.groups] :
        chart \in ChartInputs, grouping \in ByInputs, style \in StyleInputs,
        second \in {"none", "symbol", "facet_row"}}

InitChart ==
    /\ call \in Calls
    /\ pm = NoManager
    /\ cf = NoFigure
    /\ drawlog = <<>>
    /\ hp = NoHist
    /\ ly = NoLayer
    /\ sm = StyleManager_init(None, None)
    /\ last = NoCall
    /\ order = <<>>
    /\ lm = NoLong

\* PartitionManager(args, draw_figure, groups, marg_args, marg_func)
Construct ==
    /\ cf.pc = "new"
    /\ pm' = PartitionManager_init(call.args, call.groups)
    /\ cf' = [cf EXCEPT !.pc = IF pm'.raised = "no" THEN "ready" ELSE "error",
                         !.raised = pm'.raised]
    /\ UNCHANGED <<sm, last, order, lm, call, drawlog, hp, ly>>

\* create_figure, one iteration of the loop: the generator yields the next
\* call arguments and draw_figure is called with them.  The figure carries
\* a trace generator: the one passed in, or a new one.
DrawNext ==
    /\ cf.pc \in {"ready", "drawing"}
    /\ ~GeneratorRaisesOnFirst(pm)
    /\ cf.i < GeneratorLength(pm)
    /\ LET i == cf.i + 1
           args == partition_generator(pm, i)
       IN \E fresh \in BOOLEAN, has_color \in BOOLEAN :
            LET fig == [trace_generator |->
                           IF fresh \/ ~Truthy(cf.trace_generator)
                           THEN IntKey(i) ELSE cf.trace_generator,
                        has_color |-> has_color]
            IN /\ pm' = [pm EXCEPT !.args = args]
               /\ drawlog' = Append(drawlog,
                     [call_args |-> args, trace_generator |-> cf.trace_generator,
                      fig |-> fig, source |-> i])
               /\ cf' = [cf EXCEPT
                     !.pc = "drawing",
                     !.i = i,
                     !.trace_generator = next_trace_generator(cf.trace_generator, fig),
                     !.figs = Append(@, fig),
                     !.prelog = IF UsesPreprocesser(pm) /\ pm.preprocesser # "none"
                                THEN Append(@, i) ELSE @]
    /\ UNCHANGED <<sm, last, order, lm, call, hp, ly>>

\* create_figure, the generator raises: the preprocessor is called with
\* arguments it does not take
GeneratorRaises ==
    /\ cf.pc \in {"ready", "drawing"}
    /\ GeneratorRaisesOnFirst(pm)
    /\ cf' = [cf EXCEPT !.pc = "error", !.raised = "TypeError"]
    /\ UNCHANGED <<sm, last, order, lm, call, pm, drawlog, hp, ly>>

\* layer: the layered figure has a color when one of the figures has
layer_has_color(figs) == \E i \in 1..Len(figs) : figs[i].has_color

\* create_figure, the generator is exhausted: the figures are layered, and
\* the layered figure is marked when self.has_color is False;
\* layer raises ValueError when it is given no figure
Finish ==
    /\ cf.pc \in {"ready", "drawing"}
    /\ ~GeneratorRaisesOnFirst(pm)
    /\ cf.i = GeneratorLength(pm)
    /\ cf' = IF cf.figs = <<>>
             THEN [cf EXCEPT !.pc = "error", !.raised = "ValueError"]
             ELSE [cf EXCEPT !.pc = "done",
                             !.has_color = IF pm.has_color = BoolVal(FALSE)
                                           THEN BoolVal(FALSE)
                                           ELSE BoolVal(layer_has_color(cf.figs))]
    /\ UNCHANGED <<sm, last, order, lm, call, pm, drawlog, hp, ly>>

Next == Construct \/ DrawNext \/ GeneratorRaises \/ Finish

Spec == InitChart /\ [][Next]_vars

(***************************************************************************)
(* The StyleManager specification: one manager, built from any style list  *)
(* and any map, and asked about keys in any order.                         *)
(***************************************************************************)
KeyA == Str("a")
KeyB == Str("b")
\* group keys: column values (str, int) and the tuples of them that
\* get_partition_key_column_tuples builds
StyleKeys ==
    {KeyA, KeyB, IntKey(7), TupleKey(<<KeyA>>), TupleKey(<<KeyB>>), TupleKey(<<KeyA, KeyB>>)}

\* the style lists: [], [1], [1, 2], ... and the non-list values 1 and None
Palette(n) == [i \in 1..n |-> IntKey(i)]
LsInputs == {ListVal(Palette(n)) : n \in 0..MaxPalette} \cup {IntKey(1), None}

\* the explicit maps: None, {} and every dict over these keys and values
MapKeys == {KeyA, TupleKey(<<KeyA>>)}
MapStyles == {Str("m"), IntKey(1)}
MapInputs ==
    {None} \cup {DictVal(f) : f \in UNION {[D -> MapStyles] : D \in SUBSET MapKeys}}


InitStyle ==
    /\ sm \in {StyleManager_init(ls, map) : ls \in LsInputs, map \in MapInputs}
    /\ last = NoCall
    /\ order = <<>>
    /\ lm = NoLong
    /\ call = NoChart /\ pm = NoManager /\ cf = NoFigure /\ drawlog = <<>>
    /\ hp = NoHist
    /\ ly = NoLayer

\* one call assign_style(val); order lists the keys in the order of their
\* first returning call
AssignStyleStep(val) ==
    /\ val \in DOMAIN sm.found \/ Cardinality(DOMAIN sm.found) < MaxDistinct
    /\ LET r == assign_style(sm, val)
       IN /\ sm' = r.sm
          /\ last' = [key |-> val, ret |-> r.ret, raised |-> r.raised,
                      repeat |-> val \in DOMAIN sm.found]
          /\ order' = IF r.raised = "no" /\ val \notin DOMAIN sm.found
                      THEN Append(order, val) ELSE order
          /\ UNCHANGED <<lm, call, pm, cf, drawlog, hp, ly>>

NextStyle == \E val \in StyleKeys : AssignStyleStep(val)

SpecStyle == InitStyle /\ [][NextStyle]_vars

(***************************************************************************)
(* The long-mode specification: any wide table of up to MaxRows rows and   *)
(* any list of its columns given as x or y.                                *)
(***************************************************************************)
WideColumns == {"a", "b", "value"}
WideRows == [WideColumns -> 0..1]
WideTables ==
    {[types |-> [c \in WideColumns |-> "int"], rows |-> rows] :
        rows \in UNION {[1..n -> WideRows] : n \in 0..MaxRows}}

\* the non-empty lists of distinct columns
ColumnLists ==
    {q \in UNION {[1..k -> WideColumns] : k \in 1..Cardinality(WideColumns)} :
        \A i, j \in 1..Len(q) : i # j => q[i] # q[j]}

InitLong ==
    /\ lm \in {[pc |-> "wide", table |-> t, cols |-> q, pivot_vars |-> EmptyFn, out |-> t] :
                  t \in WideTables, q \in ColumnLists}
    /\ sm = StyleManager_init(None, None)
    /\ last = NoCall
    /\ order = <<>>
    /\ call = NoChart /\ pm = NoManager /\ cf = NoFigure /\ drawlog = <<>>
    /\ hp = NoHist
    /\ ly = NoLayer

\* set_pivot_variables followed by convert_table_to_long_mode, for a chart
\* that supports lists and is given a list of columns
ConvertTableToLongMode ==
    /\ lm.pc = "wide"
    /\ LET pivot_vars == get_unique_names(lm.table, {"variable", "value"})
       IN lm' = [lm EXCEPT !.pc = "long",
                           !.pivot_vars = pivot_vars,
                           !.out = to_long_mode(pivot_vars, lm.table, lm.cols)]
    /\ UNCHANGED <<sm, last, order, call, pm, cf, drawlog, hp, ly>>

NextLong == ConvertTableToLongMode

SpecLong == InitLong /\ [][NextLong]_vars

(***************************************************************************)
(* StyleManager properties                                                 *)
(***************************************************************************)
\* the key is covered by the explicit map: by itself, or as a one-element
\* collection by its first element
Covered(self, val) ==
    \/ InMap(self, val)
    \/ Truthy(self.map) /\ HasLen(val) /\ PyLen(val) = 1
         /\ PyFirst(val) \in DOMAIN self.map.d

\* the value the explicit map gives a covered key, the raw key first
MappedValue(self, val) ==
    IF InMap(self, val) THEN self.map.d[val] ELSE self.map.d[PyFirst(val)]

\* the subsequence of q of the keys the map does not cover
RECURSIVE Unmapped(_, _)
Unmapped(self, q) ==
    IF q = <<>> THEN <<>>
    ELSE IF Covered(self, Head(q)) THEN Unmapped(self, Tail(q))
    ELSE <<Head(q)>> \o Unmapped(self, Tail(q))

\* C1: once a key has a value, every later assign_style call with that key
\* returns that value; the memo only gains entries, no entry is changed or
\* removed.
C1_MemoStable ==
    [][/\ \A k \in DOMAIN sm.found :
             k \in DOMAIN sm'.found /\ sm'.found[k] = sm.found[k]
       /\ last'.key \in DOMAIN sm.found =>
             last'.raised = "no" /\ last'.ret = sm.found[last'.key]]_vars

\* a key with a value was asked about again while the memo holds two keys
C1_Witness ==
    /\ last.repeat /\ last.raised = "no"
    /\ Cardinality(DOMAIN sm.found) >= 2
    /\ Truthy(sm.map)

\* C2: with a non-empty style list S and no explicit map, the i-th distinct
\* key (from 0) has S[i mod len(S)], whatever the interleaving of new and
\* repeated keys, and every call returns the value of its key.
C2_IthKeyCycles ==
    (~Truthy(sm.map) /\ Len(sm.ls) > 0) =>
        /\ DOMAIN sm.found = {order[i] : i \in 1..Len(order)}
        /\ \A i \in 1..Len(order) :
             sm.found[order[i]] = sm.ls[((i - 1) % Len(sm.ls)) + 1]
        /\ last.raised \in {"init", "no"}
        /\ last.raised = "no" => last.ret = sm.found[last.key]

\* more distinct keys than palette entries, and the last call repeated a key
C2_Witness ==
    /\ ~Truthy(sm.map) /\ Len(sm.ls) >= 2
    /\ Len(order) > Len(sm.ls)
    /\ last.repeat

\* C3: keys resolved through the explicit map do not consume palette
\* entries: the j-th distinct key without a map override (from 0, counted
\* among the unmapped keys only) has S[j mod len(S)].
C3_MappedKeysConsumeNothing ==
    Len(sm.ls) > 0 =>
        \A j \in 1..Len(Unmapped(sm, order)) :
            sm.found[Unmapped(sm, order)[j]] = sm.ls[((j - 1) % Len(sm.ls)) + 1]

\* C4: a key covered by the explicit map has the mapped value on the first
\* and on every later call, whatever the palette position; the raw key is
\* looked up before the first element.
C4_MapOverride ==
    /\ \A k \in DOMAIN sm.found :
          Covered(sm, k) => sm.found[k] = MappedValue(sm, k)
    /\ (last.raised # "init" /\ Covered(sm, last.key) /\ Len(sm.ls) > 0) =>
          last.raised = "no" /\ last.ret = MappedValue(sm, last.key)

\* the map holds ("a",) and "a" with different values, ("a",) was asked
\* about twice, after the palette had been advanced
C4_Witness ==
    /\ Truthy(sm.map)
    /\ {KeyA, TupleKey(<<KeyA>>)} \subseteq DOMAIN sm.map.d
    /\ sm.map.d[KeyA] # sm.map.d[TupleKey(<<KeyA>>)]
    /\ last.key = TupleKey(<<KeyA>>) /\ last.repeat
    /\ Len(order) >= 2 /\ order[1] # TupleKey(<<KeyA>>)

(***************************************************************************)
(* Long-mode properties                                                    *)
(***************************************************************************)
\* C8: for n rows and k candidate columns the long table has k*n rows, k
\* copies of the input; the j-th copy is tagged with the j-th column, the
\* value column holds the row's original value of the tagged column, and
\* the k candidate columns are dropped.
C8_LongMode ==
    lm.pc = "long" =>
        LET n == Len(lm.table.rows)
            k == Len(lm.cols)
            variable == lm.pivot_vars["variable"]
            value == lm.pivot_vars["value"]
            kept == Columns(lm.table) \ {lm.cols[j] : j \in 1..k}
        IN /\ Len(lm.out.rows) = k * n
           /\ Columns(lm.out) = kept \cup {variable, value}
           /\ \A j \in 1..k : \A i \in 1..n :
                LET row == lm.out.rows[(j - 1) * n + i]
                IN /\ row[variable] = lm.cols[j]
                   /\ row[value] = lm.table.rows[i][lm.cols[j]]
                   /\ \A c \in kept : row[c] = lm.table.rows[i][c]

\* three candidate columns, two rows, and a row whose candidate columns differ
C8_Witness ==
    /\ lm.pc = "long"
    /\ Len(lm.cols) = 3 /\ Len(lm.table.rows) = 2
    /\ lm.table.rows[1]["a"] # lm.table.rows[1]["b"]
    /\ lm.table.rows[2]["b"] # lm.table.rows[2]["value"]

(***************************************************************************)
(* PartitionManager properties                                             *)
(***************************************************************************)
\* a PartitionManager was constructed without an exception
Constructed == pm # NoManager /\ pm.raised = "no"

\* create_figure has ended, by returning or by an exception
FigureEnded == Constructed /\ cf.pc \in {"done", "error"}

\* C5: for a table partitioned into n constituents each constituent is
\* preprocessed once and the draw callback is invoked exactly n times, once
\* per constituent in constituent order; with no physical split the draw
\* callback is invoked exactly once, on the base table, which is
\* preprocessed exactly once for a hist, freq or time chart.
C5_DrawOncePerConstituent ==
    FigureEnded =>
        LET n == IF IsPartitioned(pm)
                 THEN Len(pm.partitioned_table.constituent_tables) ELSE 1
        IN /\ Len(drawlog) = n
           /\ \A i \in 1..Len(drawlog) : drawlog[i].source = i
           /\ PreprocessesBase(pm) => cf.prelog = [i \in 1..n |-> i]

\* C6: the first draw invocation receives no trace generator, every later
\* one receives the trace generator of the first invocation's figure.
C6_FirstTraceGeneratorReused ==
    \A i \in 1..Len(drawlog) :
        /\ i = 1 => drawlog[i].trace_generator = None
        /\ i > 1 => drawlog[i].trace_generator = drawlog[1].fig.trace_generator

\* three figures were drawn and layered, and the second figure carries a
\* trace generator of its own
C6_Witness ==
    /\ cf.pc = "done"
    /\ Len(drawlog) >= 3
    /\ drawlog[2].fig.trace_generator # drawlog[1].fig.trace_generator

\* the grouping directive keys
DirectiveKeys == {"by", "by_vars"} \cup {a \o "_by" : a \in DOMAIN STYLE_DEFAULTS}

SingleNumeric(val, tv) ==
    LET table == IF tv.t = "table" THEN tv.tbl ELSE tv.constituent_tables[1]
    IN \/ val.t = "str" /\ val.v \in numeric_column_set(table)
       \/ val.t = "list" /\ Len(val.s) = 1 /\ val.s[1].v \in numeric_column_set(table)

\* the branch the stated precedence gives a color argument
ClaimedColorBranch(c) ==
    LET map_ == c.before["color_discrete_map"]
    IN IF MapForcesBy(map_) THEN "by_group"
       ELSE IF map_ = Str("identity") THEN "attached"
       ELSE IF Truthy(c.val) /\ SingleNumeric(c.val, c.before["table"]) THEN "untouched"
       ELSE IF Truthy(c.val) THEN "by_group"
       ELSE IF Truthy(Get(c.before, "by"))
               /\ (\/ Truthy(c.before["color_discrete_sequence"])
                   \/ pm.by_vars.t = "set" /\ "color" \in pm.by_vars.m)
       THEN "inherit"
       ELSE "untouched"

\* what a handle_plot_by_arg call did to the color argument
ColorEffect(c) ==
    IF c.raised # "no" THEN "raised"
    ELSE IF "color_discrete_map" \notin DOMAIN c.after THEN "attached"
    ELSE IF "color" \in DOMAIN c.after /\ "color_by" \in DOMAIN c.after THEN "inherit"
    ELSE IF "color" \notin DOMAIN c.after
            /\ ("color_by" \in DOMAIN c.after \/ "attached_color" \in DOMAIN c.after)
    THEN "by_group"
    ELSE "untouched"

\* C9: the color branches are tried in the order map 'by' or dict, map
\* 'identity', single numeric column, any other value, grouping column
\* inherited; exactly the first that applies changes the arguments.
C9_ColorPrecedence ==
    pm # NoManager =>
        \A j \in 1..Len(pm.calls) :
            pm.calls[j].arg = "color" =>
                ColorEffect(pm.calls[j]) = ClaimedColorBranch(pm.calls[j])

\* C10: a single numeric column given for color or size, as a string or as
\* a one-element list, with a map that is not 'by', a dict or 'identity',
\* stays under its key with its value, and no partition column is added.
C10_NumericLeftInPlace ==
    pm # NoManager =>
        \A j \in 1..Len(pm.calls) :
            LET c == pm.calls[j]
                map_ == c.before[PARTITION_ARGS[c.arg][2]]
            IN (/\ c.arg \in {"color", "size"}
                /\ Truthy(c.val) /\ SingleNumeric(c.val, c.before["table"])
                /\ ~MapForcesBy(map_) /\ map_ # Str("identity")) =>
                   /\ c.raised = "no"
                   /\ c.arg \in DOMAIN c.after /\ c.after[c.arg] = c.val
                   /\ ~Truthy(c.cols)
                   /\ (c.arg \o "_by") \notin DOMAIN pm.partition_map

\* the style attributes, and the name of the map argument of one
StyleAttrs == DOMAIN STYLE_DEFAULTS
MapArg(arg) == PARTITION_ARGS[arg][2]

\* C11: for every style attribute whose map is 'identity' and that has a
\* value, the value is moved unchanged to attached_<attr>, the map key is
\* removed, and no partition column is added for the attribute.
C11_IdentityAttached ==
    pm # NoManager =>
        \A j \in 1..Len(pm.calls) :
            LET c == pm.calls[j]
            IN (/\ c.arg \in StyleAttrs
                /\ c.before[MapArg(c.arg)] = Str("identity")
                /\ Truthy(c.val)) =>
                   /\ c.raised = "no"
                   /\ ("attached_" \o c.arg) \in DOMAIN c.after
                   /\ c.after["attached_" \o c.arg] = c.val
                   /\ c.arg \notin DOMAIN c.after
                   /\ MapArg(c.arg) \notin DOMAIN c.after
                   /\ ~Truthy(c.cols)
                   /\ (c.arg \o "_by") \notin DOMAIN pm.partition_map

\* C12: when the map of an attribute is 'by' or a dict, the attribute has
\* no value and a grouping column is set, the attribute is resolved by-group
\* on the grouping column: <attr>_by is the `by` value and its columns are
\* partition columns.
C12_MapByUsesGrouping ==
    pm # NoManager =>
        \A j \in 1..Len(pm.calls) :
            LET c == pm.calls[j]
            IN (/\ c.arg \in StyleAttrs
                /\ MapForcesBy(c.before[MapArg(c.arg)])
                /\ ~Truthy(c.val)
                /\ Truthy(Get(c.before, "by"))) =>
                   /\ c.raised = "no"
                   /\ c.cols = c.before["by"]
                   /\ (c.arg \o "_by") \in DOMAIN pm.partition_map
                   /\ ColNames(c.before["by"]) \subseteq pm.partition_cols

\* C13: the table is split at most once per chart call, by exactly the
\* union of the by-group style columns and the facet columns; it is not
\* split when that union is empty or the input is already partitioned,
\* and the style map holds style attributes only, no facet.
C13_SingleSplit ==
    Constructed =>
        LET cols == StyleColumns(pm) \cup FacetColumns(pm)
        IN /\ pm.partition_cols = cols
           /\ Len(pm.splits) <= 1
           /\ pm.splits = IF cols = {} \/ call.args["table"].t = "ptable"
                          THEN <<>> ELSE <<cols>>
           /\ DOMAIN pm.partition_map \subseteq {a \o "_by" : a \in StyleAttrs}

\* a table split once by a style column and a facet column together
C13_Witness ==
    /\ Constructed
    /\ pm.splits = <<{"g", "h"}>>
    /\ pm.facet_row = Str("h")
    /\ "color_by" \in DOMAIN pm.partition_map
    /\ pm.partition_map["color_by"] = Str("g")
    /\ Len(pm.partitioned_table.constituent_tables) = 3

\* the key tuples of the columns cols over all the rows of a partitioned table
KeyTuples(ptable, cols) ==
    UNION {{TupleKey([j \in 1..Len(cols) |-> CellVal(ptable.constituent_tables[i], r, cols[j])]) :
               r \in {ptable.constituent_tables[i].rows[n] :
                         n \in 1..Len(ptable.constituent_tables[i].rows)}} :
           i \in 1..Len(ptable.constituent_tables)}

\* the elements of a sequence, and a sequence without a repeated element
Elems(q) == {q[i] : i \in 1..Len(q)}
NoRepeat(q) == \A i, j \in 1..Len(q) : q[i] = q[j] => i = j

\* the sequence argument of attr holds every key tuple of the attribute's
\* group columns, and a non-empty palette: the user's, or the default
RecordOf(attr) ==
    LET seq == pm.args[PARTITION_ARGS[attr][1]]
        given == call.args[PARTITION_ARGS[attr][1]]
    IN /\ seq.t = "rec"
       /\ seq.ls = IF Truthy(given) THEN given ELSE STYLE_DEFAULTS[attr]
       /\ Len(seq.ls.s) > 0
       /\ Elems(seq.keys) =
              KeyTuples(pm.partitioned_table, ColList(pm.partition_map[attr \o "_by"]))

\* C14: after process_partitions the sequence argument of every style
\* attribute resolved by-group is a record {ls, map, keys} whose ls is a
\* non-empty palette (the default one when the user gave none) and whose
\* keys are the distinct key tuples of the group columns of that attribute.
C14_StyleRecord ==
    (Constructed /\ cf.pc = "ready") =>
        \A attr \in StyleAttrs :
            (attr \o "_by") \in DOMAIN pm.partition_map =>
                /\ RecordOf(attr)
                /\ NoRepeat(pm.args[PARTITION_ARGS[attr][1]].keys)

\* style resolution ended without an exception and the table engine
\* accepted the partition columns: Preprocesser.__init__ was reached
DispatcherReached ==
    /\ pm # NoManager
    /\ \A j \in 1..Len(pm.calls) : pm.calls[j].raised = "no"
    /\ pm.raised \notin {"DHError", "KeyError"}

\* the preprocessor the stated order selects for the groups of a manager
ClaimedPreprocesser(self) ==
    IF "preprocess_hist" \in self.groups THEN "hist"
    ELSE IF "preprocess_freq" \in self.groups THEN "freq"
    ELSE IF "always_attached" \in self.groups /\ DOMAIN self.always_attached # {}
    THEN "attached"
    ELSE IF "preprocess_time" \in self.groups THEN "time"
    ELSE "none"

\* C15: the dispatcher selects exactly one preprocessor, the first that
\* applies in the order hist, freq, attached, time, and routes
\* preprocess_partitioned_tables(tables, column) to it; the tables pass
\* unchanged only when no preprocessing tag is present.
C15_OnePreprocesser ==
    DispatcherReached =>
        /\ pm.raised = "no"
        /\ pm.preprocesser = ClaimedPreprocesser(pm)
        /\ ~GeneratorRaisesOnFirst(pm)

\* the styles a StyleManager assigns to the values vals, asked in order
RECURSIVE AttachedStyles(_, _, _)
AttachedStyles(self, vals, out) ==
    IF vals = <<>> THEN out
    ELSE Then(assign_style(self, Head(vals)), LAMBDA r :
         AttachedStyles(r.sm, Tail(vals), Append(out, r.ret)))

\* the always-attached style arguments that name a source column
AttachedArgs == {k \in DOMAIN pm.always_attached : k[2].t = "str"}

\* C16: on an always_attached chart the table handed to the draw callback
\* has, for every always-attached style argument, the column named in
\* args['attached_<attr>'], and its value in every row is assign_style of
\* the row's source-column value.
C16_AttachedColumn ==
    \A i \in 1..Len(drawlog) :
        \A k \in AttachedArgs :
            LET e == pm.always_attached[k]
                tbl == drawlog[i].call_args["table"].tbl
                vals == [n \in 1..Len(tbl.rows) |-> CellVal(tbl, tbl.rows[n], k[2].v)]
            IN /\ drawlog[i].call_args["attached_" \o k[1]] = Str(e.new_col)
               /\ e.new_col \in Columns(tbl)
               /\ [n \in 1..Len(tbl.rows) |-> tbl.rows[n][e.new_col]]
                     = AttachedStyles(StyleManager_init(e.ls, e.map), vals, <<>>)

\* the user gave no color: no color column and no color sequence
NoUserColor ==
    ~Truthy(call.args["color"]) /\ ~Truthy(call.args["color_discrete_sequence"])

\* C17: the figure returned by create_figure has has_color = False when
\* the user gave no color; when the user gave one the figure keeps the
\* has_color of its layers.
C17_NoColorMarked ==
    (Constructed /\ cf.pc = "done") =>
        IF NoUserColor THEN cf.has_color = BoolVal(FALSE)
        ELSE cf.has_color = BoolVal(layer_has_color(cf.figs))

(***************************************************************************)
(* HistPreprocesser: the numbers of the table engine                      *)
(***************************************************************************)
\* a long or a double of the engine: a rational n/d in lowest terms with
\* d > 0; a division by zero gives Inf or NaN; null is None
RECURSIVE GCD(_, _)
GCD(a, b) == IF b = 0 THEN a ELSE GCD(b, a % b)
Abs(x) == IF x < 0 THEN -x ELSE x
Num(n, d) == LET g == GCD(Abs(n), d) IN [t |-> "num", n |-> n \div g, d |-> d \div g]
Inf == [t |-> "inf"]
NaN == [t |-> "nan"]
IsNull(x) == x.t = "none"

\* a + b of two values that are not null
NumAdd(a, b) ==
    IF a.t = "nan" \/ b.t = "nan" THEN NaN
    ELSE IF a.t = "inf" \/ b.t = "inf" THEN Inf
    ELSE Num(a.n * b.d + b.n * a.d, a.d * b.d)

\* a * k for an integer k > 0; null stays null
NumTimes(a, k) ==
    IF IsNull(a) THEN None
    ELSE IF a.t # "num" THEN a
    ELSE Num(a.n * k, a.d)

\* a / b as doubles, for a, b >= 0; null when one of them is null
NumDiv(a, b) ==
    IF IsNull(a) \/ IsNull(b) THEN None
    ELSE IF a.t = "nan" \/ b.t = "nan" THEN NaN
    ELSE IF a.t = "inf" THEN (IF b.t = "inf" THEN NaN ELSE Inf)
    ELSE IF b.t = "inf" THEN Num(0, 1)
    ELSE IF b.n = 0 THEN (IF a.n = 0 THEN NaN ELSE Inf)
    ELSE Num(a.n * b.d, a.d * b.n)

\* the sum of the values of q that are not null, null when there is none
RECURSIVE SumFrom(_, _, _)
SumFrom(q, i, acc) ==
    IF i > Len(q) THEN acc
    ELSE IF IsNull(q[i]) THEN SumFrom(q, i + 1, acc)
    ELSE IF IsNull(acc) THEN SumFrom(q, i + 1, q[i])
    ELSE SumFrom(q, i + 1, NumAdd(acc, q[i]))
SumSeq(q) == SumFrom(q, 1, None)

\* update_by(cum_sum(cols)) keeping null: row i holds the null value
cum_sum_KeepNull(q) ==
    [i \in 1..Len(q) |-> IF IsNull(q[i]) THEN None ELSE SumSeq(SubSeq(q, 1, i))]

\* update_by(cum_sum(cols)): row i holds the sum of the values of the rows
\* up to i that are not null, and null while there was none
cum_sum(q) == [i \in 1..Len(q) |-> SumSeq(SubSeq(q, 1, i))]

(***************************************************************************)
(* HistPreprocesser                                                        *)
(***************************************************************************)
\* the cells of a column: the values of the rows of a table in that column
Cells(table, column) == [i \in 1..Len(table) |-> table[i][column]]

\* DiscretizedRangeEqual(min, max, nbins): nbins bins of equal width
DiscretizedRangeEqual(min, max, nbins) == [min |-> min, max |-> max, nbins |-> nbins]

\* range.index(v) leaving the maximum out
range_index_MaxExcluded(range, v) ==
    IF IsNull(v) THEN None
    ELSE IF v.n < range.min \/ v.n >= range.max THEN None
    ELSE IntKey(((v.n - range.min) * range.nbins) \div (range.max - range.min))

\* range.index(v): the bin of v; the maximum is in the last bin, a value
\* out of the range and null have none.  DiscretizedRangeEqual is a class
\* of the table engine; a range whose minimum is its maximum is taken to
\* keep its one value in the last bin as well.
range_index(range, v) ==
    IF IsNull(v) THEN None
    ELSE IF v.n = range.max THEN IntKey(range.nbins - 1)
    ELSE IF v.n < range.min \/ v.n > range.max THEN None
    ELSE IntKey(((v.n - range.min) * range.nbins) \div (range.max - range.min))

\* range.binMin(i) and range.binMax(i)
binMin(range, i) ==
    Num(range.min * range.nbins + i * (range.max - range.min), range.nbins)
binMax(range, i) ==
    Num(range.min * range.nbins + (i + 1) * (range.max - range.min), range.nbins)

\* the minimum and the maximum of a non-empty set of integers
SetMin(S) == CHOOSE x \in S : \A y \in S : x <= y
SetMax(S) == CHOOSE x \in S : \A y \in S : x >= y

\* HistPreprocesser.create_range_table: the range of range_bins, or the
\* range from the minimum to the maximum over all the columns
create_range_table(self) ==
    IF Truthy(self.range_bins)
    THEN DiscretizedRangeEqual(self.range_bins.s[1].n, self.range_bins.s[2].n, self.nbins)
    ELSE LET vals == UNION {{c.n : c \in {self.table[i][self.cols[j]] : i \in 1..Len(self.table)}
                                        \ {None}} : j \in 1..Len(self.cols)}
         IN DiscretizedRangeEqual(SetMin(vals), SetMax(vals), self.nbins)

\* HistPreprocesser.__init__(args) with prepare_preprocess
HistPreprocesser_init(args) ==
    LET var == IF Truthy(args["x"]) THEN "x" ELSE "y"
        col_val == args[var]
        self == [args |-> [k \in DOMAIN args \ {"nbins", "range_bins", "histfunc", "barnorm",
                                                 "histnorm", "cumulative"} |-> args[k]],
                 var |-> var,
                 other_var |-> IF var = "x" THEN "y" ELSE "x",
                 col_val |-> col_val,
                 cols |-> ColList(col_val),
                 table |-> args["table"],
                 nbins |-> args["nbins"],
                 range_bins |-> args["range_bins"],
                 histfunc |-> args["histfunc"],
                 barnorm |-> args["barnorm"],
                 histnorm |-> args["histnorm"],
                 cumulative |-> args["cumulative"],
                 range_table |-> None]
    IN [self EXCEPT !.range_table = create_range_table(self)]

\* HISTFUNC_MAP[histfunc] over the cells of one bin
agg_func(histfunc, cells) ==
    IF histfunc = "count" THEN Num(Len(cells), 1)
    ELSE SumSeq([i \in 1..Len(cells) |-> Num(cells[i].n, 1)])

\* create_count_tables and the natural_join on range_index, one table:
\* the aggregate of every bin 0..nbins-1, null for a bin without a row
count_column(self, table, column) ==
    [b \in 1..self.nbins |->
        LET cells == SelectSeq(Cells(table, column),
                               LAMBDA c : range_index(self.range_table, c) = IntKey(b - 1))
        IN IF cells = <<>> THEN None ELSE agg_func(self.histfunc, cells)]

\* HistPreprocesser.create_count_tables
create_count_tables(self, tables, column) ==
    [k \in 1..Len(tables) |-> count_column(self, tables[k], column)]

\* histnorm.replace("density", "").strip(), kept as it is
strip_density_Kept(histnorm) == histnorm

\* histnorm.replace("density", "").strip()
strip_density(histnorm) ==
    CASE histnorm = Str("probability density") -> Str("probability")
      [] histnorm = Str("density") -> Str("")
      [] OTHER -> histnorm

\* the normalisation by the sum of the column
normed(col, mult_factor) ==
    Then(SumSeq(col), LAMBDA col_sum :
         [i \in 1..Len(col) |-> NumDiv(NumTimes(col[i], mult_factor), col_sum)])

\* the division by the bin width
density(self, col) ==
    [i \in 1..Len(col) |->
        LET bin_min == binMin(self.range_table, i - 1)
            bin_max == binMax(self.range_table, i - 1)
        IN NumDiv(col[i], Num(bin_max.n * bin_min.d - bin_min.n * bin_max.d,
                              bin_max.d * bin_min.d))]

\* the normalisation by the total of the bin over the columns
barnormed(cols, mult_factor) ==
    Then([i \in 1..Len(cols[1]) |-> SumSeq([k \in 1..Len(cols) |-> cols[k][i]])],
         LAMBDA total :
         [k \in 1..Len(cols) |->
             [i \in 1..Len(cols[k]) |-> NumDiv(NumTimes(cols[k][i], mult_factor), total[i])]])

\* HistPreprocesser.preprocess_partitioned_tables(tables, column), run to
\* the end: the preprocesser after the call and, per table, the view of
\* the bin centres and the values
preprocess_partitioned_tables(self, tables, column) ==
    LET col == IF ~Truthy(column) THEN self.col_val ELSE column
        norm_set == {Str("percent"), Str("probability"), Str("probability density")}
    IN Then(create_count_tables(self, tables, col.v), LAMBDA c0 :
       Then(IF self.histnorm \in norm_set
            THEN [k \in 1..Len(c0) |->
                     normed(c0[k], IF self.histnorm = Str("percent") THEN 100 ELSE 1)]
            ELSE c0, LAMBDA c1 :
       Then(IF self.cumulative THEN [k \in 1..Len(c1) |-> cum_sum(c1[k])] ELSE c1, LAMBDA c2 :
       Then(IF self.cumulative /\ Truthy(self.histnorm)
            THEN [self EXCEPT !.histnorm = strip_density(@)] ELSE self, LAMBDA s1 :
       Then(IF s1.histnorm \in {Str("density"), Str("probability density")}
            THEN [k \in 1..Len(c2) |-> density(s1, c2[k])] ELSE c2, LAMBDA c3 :
       Then(IF Truthy(s1.barnorm) /\ c3 # <<>>
            THEN barnormed(c3, IF s1.barnorm = Str("percent") THEN 100 ELSE 1)
            ELSE c3, LAMBDA c4 :
       [self |-> s1,
        out |-> [k \in 1..Len(c4) |->
                    [i \in 1..s1.nbins |->
                        [valuez |-> LET lo == binMin(s1.range_table, i - 1)
                                        hi == binMax(s1.range_table, i - 1)
                                    IN Num(lo.n * hi.d + hi.n * lo.d, 2 * lo.d * hi.d),
                         value |-> c4[k][i]]]]]))))))

(***************************************************************************)
(* The HistPreprocesser specification: one preprocesser, built for any     *)
(* table and any histogram arguments, and run more than once.              *)
(***************************************************************************)
\* the largest nbins, the largest value of the histogram column, the most
\* rows of a table and the most preprocess_partitioned_tables calls
MaxBins == 3
MaxValue == 2
MaxHistRows == 3
MaxCalls == 2

\* the rows of a table with a group column g and a column v of values
\* that may be null; the first row is in group "a"
HistCells == {None} \cup {IntKey(n) : n \in 0..MaxValue}
HistRows == [g : {"a", "b"}, v : HistCells]
HistTables ==
    {t \in UNION {[1..n -> HistRows] : n \in 1..MaxHistRows} :
        /\ t[1].g = "a"
        /\ \E i \in 1..Len(t) : ~IsNull(t[i].v)}

\* the constituents of the table partitioned by g
HistGroups(table) ==
    LET a == SelectSeq(table, LAMBDA r : r.g = "a")
        b == SelectSeq(table, LAMBDA r : r.g = "b")
    IN IF b = <<>> THEN <<a>> ELSE <<a, b>>

\* the histogram arguments: a histfunc other than count comes without
\* normalisation
HistModes ==
    [histfunc : {"count"},
     histnorm : {None, Str("percent"), Str("probability"), Str("density"),
                 Str("probability density")},
     barnorm : {None, Str("percent")},
     cumulative : BOOLEAN]
    \cup [histfunc : {"sum"}, histnorm : {None}, barnorm : {None}, cumulative : BOOLEAN]

HistArgs ==
    {[table |-> t, x |-> Str("v"), y |-> None, nbins |-> nbins, range_bins |-> range_bins,
      histfunc |-> m.histfunc, barnorm |-> m.barnorm, histnorm |-> m.histnorm,
      cumulative |-> m.cumulative] :
        t \in HistTables, nbins \in 1..MaxBins,
        range_bins \in {None, ListVal(<<IntKey(0), IntKey(1)>>)}, m \in HistModes}

InitHist ==
    /\ hp \in {[pc |-> "new", given |-> a, self |-> None, outs |-> <<>>] : a \in HistArgs}
    /\ ly = NoLayer
    /\ sm = StyleManager_init(None, None)
    /\ last = NoCall
    /\ order = <<>>
    /\ lm = NoLong
    /\ call = NoChart /\ pm = NoManager /\ cf = NoFigure /\ drawlog = <<>>

\* HistPreprocesser(args)
HistConstruct ==
    /\ hp.pc = "new"
    /\ hp' = [hp EXCEPT !.pc = "built", !.self = HistPreprocesser_init(hp.given)]
    /\ UNCHANGED <<sm, last, order, lm, call, pm, cf, drawlog, ly>>

\* list(preprocesser.preprocess_partitioned_tables(tables))
HistPreprocess ==
    /\ hp.pc = "built"
    /\ Len(hp.outs) < MaxCalls
    /\ \E r \in {preprocess_partitioned_tables(hp.self, HistGroups(hp.given.table), None)} :
          hp' = [hp EXCEPT !.self = r.self, !.outs = Append(@, r.out)]
    /\ UNCHANGED <<sm, last, order, lm, call, pm, cf, drawlog, ly>>

NextHist == HistConstruct \/ HistPreprocess

SpecHist == InitHist /\ [][NextHist]_vars

(***************************************************************************)
(* HistPreprocesser properties                                             *)
(***************************************************************************)
\* a count as an integer: an empty bin has a null count, which counts 0
CountOf(x) == IF IsNull(x) THEN 0 ELSE x.n

\* the sum of the counts of the bins 0..i-1 of a column
RECURSIVE PrefixCount(_, _)
PrefixCount(col, i) == IF i = 0 THEN 0 ELSE PrefixCount(col, i - 1) + CountOf(col[i])

\* the values of the output of one table
OutValues(view) == [i \in 1..Len(view) |-> view[i].value]

\* the number of rows of a table whose value is not null
NonNullRows(table) == Len(SelectSeq(table, LAMBDA r : ~IsNull(r.v)))

\* C18: with histfunc count, no histnorm, no barnorm, cumulative off and
\* no range_bins, the output of every group has one value per bin
\* 0..nbins-1 and its counts sum to the number of non-null rows of the group.
C18_HistConservation ==
    \A c \in 1..Len(hp.outs) :
        (/\ hp.given.histfunc = "count"
         /\ ~Truthy(hp.given.histnorm) /\ ~Truthy(hp.given.barnorm)
         /\ ~hp.given.cumulative /\ ~Truthy(hp.given.range_bins)) =>
            LET groups == HistGroups(hp.given.table)
            IN /\ Len(hp.outs[c]) = Len(groups)
               /\ \A k \in 1..Len(groups) :
                    LET col == OutValues(hp.outs[c][k])
                    IN /\ Len(col) = hp.given.nbins
                       /\ \A i \in 1..Len(col) :
                             IsNull(col[i]) \/ (col[i].t = "num" /\ col[i].d = 1 /\ col[i].n > 0)
                       /\ PrefixCount(col, Len(col)) = NonNullRows(groups[k])

\* two groups counted into three bins, one group with a null row and an
\* empty bin, the other with two rows in one bin
C18_Witness ==
    /\ hp.given.histfunc = "count"
    /\ ~Truthy(hp.given.histnorm) /\ ~Truthy(hp.given.barnorm)
    /\ ~hp.given.cumulative /\ ~Truthy(hp.given.range_bins)
    /\ hp.given.nbins = 3
    /\ hp.given.table = <<[g |-> "a", v |-> IntKey(0)], [g |-> "b", v |-> IntKey(2)],
                          [g |-> "a", v |-> None]>>
    /\ Len(hp.outs) = 1
    /\ OutValues(hp.outs[1][1]) = <<Num(1, 1), None, None>>
    /\ OutValues(hp.outs[1][2]) = <<None, None, Num(1, 1)>>

\* C19: in cumulative mode the output count of every bin i of every group
\* is the sum of the raw counts of the bins 0..i, empty bins included.
C19_HistCumulative ==
    \A c \in 1..Len(hp.outs) :
        (/\ hp.given.cumulative
         /\ ~Truthy(hp.given.histnorm) /\ ~Truthy(hp.given.barnorm)) =>
            LET groups == HistGroups(hp.given.table)
                raw == create_count_tables(hp.self, groups, "v")
            IN \A k \in 1..Len(groups) :
                 \A i \in 1..hp.given.nbins :
                    CountOf(hp.outs[c][k][i].value) = PrefixCount(raw[k], i)

\* a cumulative histogram with an empty bin before and after a filled one
C19_Witness ==
    /\ hp.given.cumulative /\ hp.given.histfunc = "count"
    /\ ~Truthy(hp.given.histnorm) /\ ~Truthy(hp.given.barnorm)
    /\ hp.given.nbins = 3 /\ hp.given.range_bins = ListVal(<<IntKey(0), IntKey(1)>>)
    /\ Len(hp.outs) = 1
    /\ create_count_tables(hp.self, HistGroups(hp.given.table), "v")
          = <<<<Num(2, 1), None, Num(1, 1)>>>>
    /\ OutValues(hp.outs[1][1]) = <<Num(2, 1), Num(2, 1), Num(3, 1)>>

\* the histnorm that a cumulative histogram is claimed to behave as
WithoutDensity(histnorm) ==
    IF histnorm = Str("probability density") THEN Str("probability")
    ELSE IF histnorm = Str("density") THEN None
    ELSE histnorm

\* the output of a new preprocesser with the arguments args
FirstOutput(args) ==
    preprocess_partitioned_tables(HistPreprocesser_init(args), HistGroups(args.table), None).out

\* C20: with cumulative on, histnorm 'probability density' gives the
\* output of 'probability' and 'density' the output of no normalisation,
\* with no division by the bin width, on every call of
\* preprocess_partitioned_tables on the same preprocesser.
C20_CumulativeDropsDensity ==
    \A c \in 1..Len(hp.outs) :
        hp.given.cumulative =>
            hp.outs[c] =
                FirstOutput([hp.given EXCEPT !.histnorm = WithoutDensity(hp.given.histnorm)])

\* a cumulative 'probability density' histogram with bins of width 1/3,
\* preprocessed twice
C20_Witness ==
    /\ hp.given.cumulative
    /\ hp.given.histnorm = Str("probability density")
    /\ hp.given.nbins = 3 /\ hp.given.range_bins = ListVal(<<IntKey(0), IntKey(1)>>)
    /\ ~Truthy(hp.given.barnorm)
    /\ Len(hp.outs) = 2
    /\ hp.self.histnorm = Str("probability")
    /\ OutValues(hp.outs[2][1]) = <<Num(1, 2), Num(1, 2), Num(1, 1)>>

(***************************************************************************)
(* FreqPreprocesser                                                        *)
(***************************************************************************)
\* table.view([column]).count_by(count, by=column): one row per distinct
\* value of the column, in the order of its first row, with the number of
\* rows holding it
count_by(table, count, column) ==
    LET keys == DistinctKeys(table.rows, {column}, <<>>)
    IN [types |-> [c \in {column, count} |-> IF c = count THEN "long" ELSE table.types[c]],
        rows |-> [i \in 1..Len(keys) |->
                     [c \in {column, count} |->
                         IF c = count THEN Len(RowsWithKey(table.rows, {column}, keys[i]))
                         ELSE keys[i][column]]]]

\* the body of FreqPreprocesser.preprocess_partitioned_tables(column) for
\* the table the preprocesser holds
freq_count_table(table, column) ==
    count_by(table, get_unique_names(table, {"count"})["count"], column)

\* C21: a frequency chart that was constructed draws, for every group, the
\* table with one (value, count) row per distinct value of the univariate
\* column in that group, the count being the number of rows of the group
\* that hold the value.
C21_FreqPerGroup ==
    (FigureEnded /\ pm.preprocesser = "freq") =>
        /\ cf.pc = "done"
        /\ Len(drawlog) = GeneratorLength(pm)
        /\ \A i \in 1..Len(drawlog) :
              drawlog[i].call_args["table"] =
                  TableVal(freq_count_table(BaseTables(pm)[i], call.args["x"].v))

(***************************************************************************)
(* Layering (plots/_private_utils.py).  A figure is its trace list `data`  *)
(* and its `layout`, a dict kept as the sequence of its (name, obj) items  *)
(* in insertion order.  The name of a layout object or of a trace axis is  *)
(* [type, num]: "xaxis" is [type |-> "xaxis", num |-> 1], "xaxis2" is      *)
(* [type |-> "xaxis", num |-> 2], "x2" is [type |-> "x", num |-> 2].       *)
(* Positions are rationals.                                                *)
(***************************************************************************)
\* a - b and a * b of two rationals
NumSub(a, b) == Num(a.n * b.d - b.n * a.d, a.d * b.d)
NumMul(a, b) == Num(a.n * b.n, a.d * b.d)

\* f"{type_}{num}", num being "" for the first
AxisName(type_, num) == [type |-> type_, num |-> num]

\* dict.update(other) on dicts kept as item sequences: the value of a key
\* that is present is replaced in place, a new key is appended
RECURSIVE dict_update(_, _)
dict_update(d, other) ==
    IF other = <<>> THEN d
    ELSE LET it == Head(other)
             at == {k \in 1..Len(d) : d[k].name = it.name}
         IN dict_update(IF at = {} THEN Append(d, it)
                        ELSE [k \in 1..Len(d) |-> IF k \in at THEN it ELSE d[k]],
                        Tail(other))

\* obj.update(k=v) and obj.get(k) on an object kept as a function
ObjSet(obj, k, v) == [x \in DOMAIN obj \cup {k} |-> IF x = k THEN v ELSE obj[x]]
ObjUpdate(obj, upd) ==
    [x \in DOMAIN obj \cup DOMAIN upd |-> IF x \in DOMAIN upd THEN upd[x] ELSE obj[x]]

\* normalize_position
normalize_position(position, chart_start, chart_range) ==
    NumDiv(NumSub(position, chart_start), chart_range)

\* get_new_positions with the new range left out: the position is only moved
get_new_positions_Shifted(new_domain, positions, chart_domain) ==
    [k \in 1..Len(positions) |->
        NumAdd(new_domain[1],
               normalize_position(positions[k], chart_domain[1],
                                  NumSub(chart_domain[2], chart_domain[1])))]

\* get_new_positions: every position is normalized to the chart domain and
\* mapped onto new_domain
get_new_positions(new_domain, positions, chart_domain) ==
    LET new_range == NumSub(new_domain[2], new_domain[1])
    IN [k \in 1..Len(positions) |->
           LET chart_range == NumSub(chart_domain[2], chart_domain[1])
               normalized == normalize_position(positions[k], chart_domain[1], chart_range)
           IN NumAdd(new_domain[1], NumMul(normalized, new_range))]

\* the domain of the whole chart, and the default domain of an axis
UnitDomain == <<Num(0, 1), Num(1, 1)>>

\* resize_domain: the domain of a scene, a polar or ternary object or a
\* trace; the new domain holds only the directions the spec gives
resize_domain(obj, new_domain) ==
    LET dirs == {w \in {"x", "y"} : w \in DOMAIN new_domain}
        domain_update ==
            [w \in dirs |-> get_new_positions(new_domain[w], obj["domain"][w], UnitDomain)]
    IN IF dirs # {} THEN ObjSet(obj, "domain", domain_update) ELSE obj

\* resize_xy_axis: the domain of an x axis follows the x range of the spec
\* and its position the y range, and the other way round for a y axis
resize_xy_axis(axis, new_domain, which) ==
    LET other == IF which = "x" THEN "y" ELSE "x"
        axis_domain == IF "domain" \in DOMAIN axis THEN axis["domain"] ELSE UnitDomain
        a1 == IF which \in DOMAIN new_domain
              THEN ObjSet(axis, "domain",
                          get_new_positions(new_domain[which], axis_domain, UnitDomain))
              ELSE axis
    IN IF other \in DOMAIN new_domain /\ "position" \in DOMAIN axis
       THEN ObjSet(a1, "position",
                   get_new_positions(new_domain[other], <<axis["position"]>>, UnitDomain)[1])
       ELSE a1

\* the keys of a trace that name an axis
TraceAxisKeys == {"xaxis", "yaxis", "scene", "subplot", "ternary"}

\* reassign_axes: the axes of a trace renamed by the remapping
reassign_axes(trace, axes_remapping) ==
    [k \in DOMAIN trace |->
        IF k \in TraceAxisKeys THEN axes_remapping[trace[k]] ELSE trace[k]]

\* reassign_axes raises KeyError for a trace on an axis that the layout of
\* its figure does not have
reassign_axes_raises(fig_data, axes_remapping) ==
    \E k \in 1..Len(fig_data) : \E key \in DOMAIN fig_data[k] \cap TraceAxisKeys :
        fig_data[k][key] \notin DOMAIN axes_remapping

\* reassign_attributes: anchor and overlaying renamed when the remapping
\* has them
reassign_attributes(axis, axes_remapping) ==
    [k \in DOMAIN axis |->
        IF k \in {"anchor", "overlaying"} /\ axis[k] \in DOMAIN axes_remapping
        THEN axes_remapping[axis[k]] ELSE axis[k]]

\* resize_axis: the resized object, its new name in the layout, and its
\* old and new name in the traces
resize_axis(type_, old_axis, axis, num, new_domain) ==
    IF type_ \in {"xaxis", "yaxis"}
    THEN LET which == IF type_ = "xaxis" THEN "x" ELSE "y"
         IN [axis |-> resize_xy_axis(axis, new_domain, which),
             new_axis |-> AxisName(type_, num),
             old_trace_axis |-> AxisName(which, old_axis.num),
             new_trace_axis |-> AxisName(which, num)]
    ELSE [axis |-> resize_domain(axis, new_domain),
          new_axis |-> AxisName(type_, num),
          old_trace_axis |-> old_axis,
          new_trace_axis |-> AxisName(type_, num)]

\* get_axis_update
get_axis_update(spec, type_) ==
    IF "xaxis_update" \in DOMAIN spec /\ type_ = "xaxis" THEN spec["xaxis_update"]
    ELSE IF "yaxis_update" \in DOMAIN spec /\ type_ = "yaxis" THEN spec["yaxis_update"]
    ELSE EmptyFn

\* match_axes with the match groups keyed by the key alone
match_axes_KeyOnly(type_, spec, matches_axes, axis_indices, new_trace_axis) ==
    LET k == "matched_" \o type_
    IN IF k \in DOMAIN spec
       THEN LET key == [key |-> spec[k], type |-> "any"]
                group == IF key \in DOMAIN matches_axes THEN matches_axes[key] ELSE EmptyFn
                axis_index == axis_indices[type_]
            IN IF axis_index \notin DOMAIN group
               THEN [matches_axes |-> ObjSet(matches_axes, key,
                                             ObjSet(group, axis_index, new_trace_axis)),
                     update |-> EmptyFn]
               ELSE [matches_axes |-> ObjSet(matches_axes, key, group),
                     update |-> [m \in {"matches"} |-> group[axis_index]]]
       ELSE [matches_axes |-> matches_axes, update |-> EmptyFn]

\* match_axes: the first axis with an index in a match group is the base of
\* the group at that index, a later one matches the base
match_axes(type_, spec, matches_axes, axis_indices, new_trace_axis) ==
    LET k == "matched_" \o type_
    IN IF k \in DOMAIN spec
       THEN LET key == [key |-> spec[k], type |-> type_]
                group == IF key \in DOMAIN matches_axes THEN matches_axes[key] ELSE EmptyFn
                axis_index == axis_indices[type_]
            IN IF axis_index \notin DOMAIN group
               THEN [matches_axes |-> ObjSet(matches_axes, key,
                                             ObjSet(group, axis_index, new_trace_axis)),
                     update |-> EmptyFn]
               ELSE [matches_axes |-> ObjSet(matches_axes, key, group),
                     update |-> [m \in {"matches"} |-> group[axis_index]]]
       ELSE [matches_axes |-> matches_axes, update |-> EmptyFn]

\* the layout objects that resize_fig renumbers
AxisTypes == {"xaxis", "yaxis", "scene", "polar", "ternary"}

\* resize_fig, one item of the layout: an axis-like object is resized, takes
\* the next number of its type and its update, and its old trace name is
\* remapped to the new one
resize_item(acc, item, spec) ==
    IF item.name.type \notin AxisTypes THEN acc
    ELSE LET type_ == item.name.type
             axis_indices == IF type_ \in {"xaxis", "yaxis"}
                             THEN [acc.axis_indices EXCEPT ![type_] = @ + 1]
                             ELSE acc.axis_indices
         IN Then(resize_axis(type_, item.name, item.obj, acc.new_axes_start[type_], spec),
                 LAMBDA r :
            Then(match_axes(type_, spec, acc.matches_axes, axis_indices, r.new_trace_axis),
                 LAMBDA m :
            [axes_remapping |-> ObjSet(acc.axes_remapping, r.old_trace_axis, r.new_trace_axis),
             new_axes |-> dict_update(acc.new_axes,
                             <<[name |-> r.new_axis,
                                obj |-> ObjUpdate(ObjUpdate(r.axis, get_axis_update(spec, type_)),
                                                  m.update)]>>),
             old_axes |-> acc.old_axes \cup {item.name},
             axis_indices |-> axis_indices,
             new_axes_start |-> [acc.new_axes_start EXCEPT ![type_] = @ + 1],
             matches_axes |-> m.matches_axes]))

RECURSIVE resize_loop(_, _, _, _)
resize_loop(items, k, spec, acc) ==
    IF k > Len(items) THEN acc
    ELSE Then(resize_item(acc, items[k], spec), LAMBDA a : resize_loop(items, k + 1, spec, a))

\* resize_fig: nothing is done for an empty spec; else every axis-like
\* object of the layout is renumbered from new_axes_start and resized, and
\* the traces and the anchors are renamed
resize_fig(fig_data, fig_layout, spec, new_axes_start, matches_axes) ==
    IF DOMAIN spec = {}
    THEN [data |-> fig_data, layout |-> fig_layout, raised |-> "no",
          new_axes_start |-> new_axes_start, matches_axes |-> matches_axes]
    ELSE Then(resize_loop(fig_layout, 1, spec,
                  [axes_remapping |-> EmptyFn, new_axes |-> <<>>, old_axes |-> {},
                   axis_indices |-> [t \in {"xaxis", "yaxis"} |-> 0],
                   new_axes_start |-> new_axes_start, matches_axes |-> matches_axes]),
              LAMBDA acc :
         LET kept == IF "wipe_layout" \in DOMAIN spec /\ spec["wipe_layout"] THEN <<>>
                     ELSE SelectSeq(fig_layout, LAMBDA it : it.name \notin acc.old_axes)
             layout == dict_update(kept, acc.new_axes)
         IN IF reassign_axes_raises(fig_data, acc.axes_remapping)
            THEN [data |-> fig_data, layout |-> layout, raised |-> "KeyError",
                  new_axes_start |-> acc.new_axes_start, matches_axes |-> acc.matches_axes]
            ELSE
            [data |-> [k \in 1..Len(fig_data) |->
                          LET trace == reassign_axes(fig_data[k], acc.axes_remapping)
                          IN IF "domain" \in DOMAIN trace THEN resize_domain(trace, spec)
                             ELSE trace],
             layout |-> [k \in 1..Len(layout) |->
                            [name |-> layout[k].name,
                             obj |-> reassign_attributes(layout[k].obj, acc.axes_remapping)]],
             raised |-> "no",
             new_axes_start |-> acc.new_axes_start,
             matches_axes |-> acc.matches_axes])

\* fig_data_and_layout: with specs the figure is resized by specs[i];
\* without, the layout is kept when which_layout is None or i
fig_data_and_layout(fig, i, has_specs, spec, which_layout, new_axes_start, matches_axes) ==
    IF has_specs
    THEN resize_fig(fig.data, fig.layout, spec, new_axes_start, matches_axes)
    ELSE [data |-> fig.data,
          layout |-> IF which_layout = None \/ which_layout = IntKey(i)
                     THEN fig.layout ELSE <<>>,
          raised |-> "no",
          new_axes_start |-> new_axes_start, matches_axes |-> matches_axes]

\* a plotly Figure and a DeephavenFigure
Figure(data, layout) ==
    [t |-> "fig", kind |-> "Figure", data |-> data, layout |-> layout,
     data_mappings |-> <<>>, has_template |-> FALSE, has_color |-> FALSE,
     has_subplots |-> FALSE]
DeephavenFigure(data, layout, data_mappings, has_template, has_color, has_subplots) ==
    [t |-> "fig", kind |-> "DeephavenFigure", data |-> data, layout |-> layout,
     data_mappings |-> data_mappings, has_template |-> has_template,
     has_color |-> has_color, has_subplots |-> has_subplots]

\* DeephavenFigure.copy_mappings(offset): the mappings with the index of
\* their trace moved by offset
copy_mappings(fig, offset) ==
    [k \in 1..Len(fig.data_mappings) |->
        [fig.data_mappings[k] EXCEPT !.index = @ + offset]]

\* layer, the offset with no trace counted
layer_offset_Zero(new_data) == 0

\* layer, offset = len(new_data)
layer_offset(new_data) == Len(new_data)

\* layer, the state before the loop
layer_start ==
    [new_data |-> <<>>, new_layout |-> <<>>, new_data_mappings |-> <<>>,
     new_has_template |-> FALSE, new_has_color |-> FALSE,
     new_axes_start |-> [t \in AxisTypes |-> 1],
     matches_axes |-> EmptyFn, raised |-> "no", fig_data |-> <<>>, fig_layout |-> <<>>]

\* layer, the loop body for the i-th argument
layer_step(st, i, arg, has_specs, spec, which_layout) ==
    IF arg.t = "none" THEN st
    ELSE IF arg.t # "fig" THEN Raise(st, "TypeError")
    ELSE IF arg.kind = "DeephavenFigure" /\ arg.has_subplots
    THEN Raise(st, "NotImplementedError")
    ELSE Then(fig_data_and_layout(arg, i, has_specs, spec, which_layout,
                                  st.new_axes_start, st.matches_axes),
              LAMBDA r :
         IF r.raised # "no" THEN Raise(st, r.raised) ELSE
         [st EXCEPT
            !.fig_data = r.data,
            !.fig_layout = r.layout,
            !.new_data = @ \o r.data,
            !.new_layout = dict_update(@, r.layout),
            !.new_axes_start = r.new_axes_start,
            !.matches_axes = r.matches_axes,
            !.new_data_mappings =
                IF arg.kind = "DeephavenFigure"
                THEN @ \o copy_mappings(arg, layer_offset(st.new_data)) ELSE @,
            !.new_has_template =
                IF arg.kind = "DeephavenFigure" THEN arg.has_template \/ @ ELSE @,
            !.new_has_color =
                IF arg.kind = "DeephavenFigure" THEN arg.has_color \/ @ ELSE @])

\* layer, the figure returned, has_subplots left unset
layer_result_NoSubplots(st, has_specs) ==
    DeephavenFigure(st.new_data, st.new_layout, st.new_data_mappings,
                    st.new_has_template, st.new_has_color, FALSE)

\* layer, the figure returned: has_subplots=True if specs else False
layer_result(st, has_specs) ==
    DeephavenFigure(st.new_data, st.new_layout, st.new_data_mappings,
                    st.new_has_template, st.new_has_color, has_specs)

(***************************************************************************)
(* The layering specification: layer is called with figures and specs,     *)
(* one argument at a time, and the figure it returns may be an argument of *)
(* a later call.                                                           *)
(***************************************************************************)
\* the most arguments given to layer over all its calls
MaxLayerArgs == 3

Half == Num(1, 2)
XName(n) == AxisName("x", n)
YName(n) == AxisName("y", n)

\* a chart with one x and one y axis and one trace
FigA ==
    DeephavenFigure(
        <<[name |-> "a", xaxis |-> XName(1), yaxis |-> YName(1)]>>,
        <<[name |-> AxisName("xaxis", 1), obj |-> [anchor |-> YName(1), domain |-> UnitDomain]],
          [name |-> AxisName("yaxis", 1), obj |-> [anchor |-> XName(1)]],
          [name |-> AxisName("legend", 1), obj |-> [tracegroupgap |-> 0]]>>,
        <<[index |-> 0, of |-> "a"]>>, FALSE, FALSE, FALSE)

\* a chart with two x and two y axes, the second y axis free, and two traces
FigB ==
    DeephavenFigure(
        <<[name |-> "b1", xaxis |-> XName(1), yaxis |-> YName(1)],
          [name |-> "b2", xaxis |-> XName(2), yaxis |-> YName(2)]>>,
        <<[name |-> AxisName("xaxis", 1),
           obj |-> [anchor |-> YName(1), domain |-> <<Num(0, 1), Half>>]],
          [name |-> AxisName("yaxis", 1), obj |-> [anchor |-> XName(1)]],
          [name |-> AxisName("xaxis", 2),
           obj |-> [anchor |-> YName(2), domain |-> <<Half, Num(1, 1)>>]],
          [name |-> AxisName("yaxis", 2),
           obj |-> [anchor |-> AxisName("free", 1), position |-> Half,
                    overlaying |-> YName(1)]]>>,
        <<[index |-> 0, of |-> "b1"], [index |-> 1, of |-> "b2"]>>, TRUE, TRUE, FALSE)

\* a plotly figure with a scene and one trace
FigC ==
    Figure(<<[name |-> "c", scene |-> AxisName("scene", 1)]>>,
           <<[name |-> AxisName("scene", 1),
              obj |-> [domain |-> [w \in {"x", "y"} |-> UnitDomain]]]>>)

\* the arguments of layer: figures, None, and a value that is no figure
LayerArgs == {FigA, FigB, FigC, None, Str("text")}

\* the specs of layer
LayerSpecs ==
    {EmptyFn,
     [x |-> <<Num(0, 1), Half>>, matched_xaxis |-> "k"],
     [x |-> <<Half, Num(1, 1)>>, y |-> <<Num(0, 1), Half>>, matched_xaxis |-> "k",
      matched_yaxis |-> "k", xaxis_update |-> [title |-> "t"]],
     [y |-> <<Num(1, 4), Num(1, 1)>>, matched_yaxis |-> "m", wipe_layout |-> TRUE],
     [x |-> <<Half, Num(1, 1)>>]}

InitLayer ==
    /\ ly = [pc |-> "idle", has_specs |-> FALSE, which_layout |-> None, i |-> 0,
             st |-> layer_start, frags |-> <<>>, prev |-> None, prev_specs |-> FALSE,
             args |-> 0]
    /\ hp = NoHist
    /\ sm = StyleManager_init(None, None)
    /\ last = NoCall
    /\ order = <<>>
    /\ lm = NoLong
    /\ call = NoChart /\ pm = NoManager /\ cf = NoFigure /\ drawlog = <<>>

\* layer(*figs, which_layout, specs) is called
LayerCall ==
    /\ ly.pc = "idle"
    /\ \E has_specs \in BOOLEAN, which_layout \in {None, IntKey(0)} :
          /\ has_specs => which_layout = None
          /\ ly' = [ly EXCEPT !.pc = "loop", !.has_specs = has_specs,
                              !.which_layout = which_layout, !.i = 0,
                              !.st = layer_start, !.frags = <<>>]
    /\ UNCHANGED <<sm, last, order, lm, call, pm, cf, drawlog, hp>>

\* layer, one iteration of the loop over figs: the argument is a figure, a
\* figure returned by an earlier call, None or no figure; with specs, its
\* spec is specs[i]
LayerAdd ==
    /\ ly.pc = "loop"
    /\ ly.args < MaxLayerArgs
    /\ \E arg \in LayerArgs \cup {ly.prev} :
       \E spec \in IF ly.has_specs /\ arg.t = "fig" THEN LayerSpecs ELSE {EmptyFn} :
       \E st \in {layer_step(ly.st, ly.i, arg, ly.has_specs, spec, ly.which_layout)} :
          ly' = [ly EXCEPT
                   !.pc = IF st.raised = "no" THEN "loop" ELSE "error",
                   !.st = st,
                   !.i = @ + 1,
                   !.args = @ + 1,
                   !.frags = Append(@, [arg |-> arg, spec |-> spec,
                                        data |-> IF arg.t = "fig" /\ st.raised = "no"
                                                 THEN st.fig_data ELSE <<>>,
                                        layout |-> IF arg.t = "fig" /\ st.raised = "no"
                                                   THEN st.fig_layout ELSE <<>>])]
    /\ UNCHANGED <<sm, last, order, lm, call, pm, cf, drawlog, hp>>

\* layer returns the composed figure, or raises ValueError when it was
\* given no argument; prev_specs records whether the figure was composed
\* with specs
LayerReturn ==
    /\ ly.pc = "loop"
    /\ ly' = IF ly.i = 0
             THEN [ly EXCEPT !.pc = "error", !.st = Raise(@, "ValueError")]
             ELSE [ly EXCEPT !.pc = "idle", !.prev = layer_result(ly.st, ly.has_specs),
                             !.prev_specs = ly.has_specs]
    /\ UNCHANGED <<sm, last, order, lm, call, pm, cf, drawlog, hp>>

NextLayer == LayerCall \/ LayerAdd \/ LayerReturn

SpecLayer == InitLayer /\ [][NextLayer]_vars

(***************************************************************************)
(* Layering properties                                                     *)
(***************************************************************************)
\* the fragments of the current or last call of layer that are figures
Fragments == {a \in 1..Len(ly.frags) : ly.frags[a].arg.t = "fig"}

\* the names of the axis-like objects of a layout, and those of one type in
\* the order of the layout
AxisNames(layout) == {layout[k].name : k \in {j \in 1..Len(layout) : layout[j].name.type \in AxisTypes}}
AxesOfType(layout, type_) == SelectSeq(layout, LAMBDA it : it.name.type = type_)

\* the name in the layout of the axis a trace names
LayoutName(trace_axis) ==
    IF trace_axis.type = "x" THEN AxisName("xaxis", trace_axis.num)
    ELSE IF trace_axis.type = "y" THEN AxisName("yaxis", trace_axis.num)
    ELSE trace_axis

\* the axes of one type of the fragments 1..a, in fragment order
RECURSIVE AxesUpTo(_, _)
AxesUpTo(a, type_) ==
    IF a = 0 THEN <<>> ELSE AxesUpTo(a - 1, type_) \o AxesOfType(ly.frags[a].layout, type_)

\* C22: when layer composes fragments with a specs list, no two axis-like
\* layout objects of different fragments have the same name, the axes of
\* every type are numbered 1, 2, ... in fragment order, and every trace
\* names an axis of its own fragment, whatever the specs are.
C22_NoAxisCollision ==
    (ly.pc \in {"loop", "idle"} /\ ly.has_specs) =>
        /\ \A a, b \in Fragments :
              a # b => AxisNames(ly.frags[a].layout) \cap AxisNames(ly.frags[b].layout) = {}
        /\ \A type_ \in AxisTypes :
              LET axes == AxesUpTo(Len(ly.frags), type_)
              IN \A k \in 1..Len(axes) : axes[k].name = AxisName(type_, k)
        /\ \A a \in Fragments : \A k \in 1..Len(ly.frags[a].data) :
              \A key \in DOMAIN ly.frags[a].data[k] \cap TraceAxisKeys :
                 LayoutName(ly.frags[a].data[k][key]) \in AxisNames(ly.frags[a].layout)

\* a <= b for two rationals
NumLeq(a, b) == a.n * b.d <= b.n * a.d

\* the linear map of [0, 1] onto the range d, at p
OntoRange(d, p) == NumAdd(d[1], NumMul(p, NumSub(d[2], d[1])))

\* the domain of an axis, [0, 1] when it is not set
DomainOf(axis) == IF "domain" \in DOMAIN axis THEN axis["domain"] ELSE UnitDomain

\* the fragments that resize_fig resized with a spec
Resized ==
    {a \in Fragments : /\ ly.has_specs /\ ly.frags[a].spec # EmptyFn
                       /\ ~(a = Len(ly.frags) /\ ly.st.raised # "no")}

\* C23: for every fragment resized by a spec and every x (y) axis of it,
\* the domain becomes the image of the local domain under
\* p -> d0 + p * (d1 - d0), [d0, d1] being the x (y) range of the spec: a
\* local domain [0, 1] or unset becomes [d0, d1], the order of the two ends
\* is kept, and without an x (y) range in the spec the domain is unchanged.
C23_LinearRemap ==
    \A a \in Resized :
        \A which \in {"x", "y"} :
            LET type_ == which \o "axis"
                old == AxesOfType(ly.frags[a].arg.layout, type_)
                new == AxesOfType(ly.frags[a].layout, type_)
                spec == ly.frags[a].spec
            IN /\ Len(new) = Len(old)
               /\ \A j \in 1..Len(old) :
                    IF which \in DOMAIN spec
                    THEN /\ "domain" \in DOMAIN new[j].obj
                         /\ new[j].obj["domain"] =
                               <<OntoRange(spec[which], DomainOf(old[j].obj)[1]),
                                 OntoRange(spec[which], DomainOf(old[j].obj)[2])>>
                         /\ DomainOf(old[j].obj) = UnitDomain =>
                               new[j].obj["domain"] = spec[which]
                         /\ NumLeq(new[j].obj["domain"][1], new[j].obj["domain"][2])
                    ELSE /\ ("domain" \in DOMAIN new[j].obj) = ("domain" \in DOMAIN old[j].obj)
                         /\ DomainOf(new[j].obj) = DomainOf(old[j].obj)

\* the chart with two x axes resized into the right lower quarter: the x
\* axis on [0, 1/2] ends on [1/2, 3/4], the y axis without a domain on
\* [0, 1/2]
C23_Witness ==
    /\ ly.has_specs /\ ly.pc = "loop"
    /\ \E a \in Resized :
          /\ ly.frags[a].arg = FigB
          /\ ly.frags[a].spec = [x |-> <<Half, Num(1, 1)>>, y |-> <<Num(0, 1), Half>>,
                                 matched_xaxis |-> "k", matched_yaxis |-> "k",
                                 xaxis_update |-> [title |-> "t"]]
          /\ AxesOfType(ly.frags[a].layout, "xaxis")[1].obj["domain"] = <<Half, Num(3, 4)>>
          /\ AxesOfType(ly.frags[a].layout, "yaxis")[1].obj["domain"] = <<Num(0, 1), Half>>

\* the match key of a fragment for a type of axis, None when it has none
MatchKey(a, type_) ==
    IF ("matched_" \o type_) \in DOMAIN ly.frags[a].spec
    THEN Str(ly.frags[a].spec["matched_" \o type_]) ELSE None

\* the earlier fragments in the match group of fragment a that have a j-th
\* axis of the type
EarlierInGroup(a, type_, j) ==
    {b \in Resized : /\ b < a
                     /\ MatchKey(b, type_) = MatchKey(a, type_)
                     /\ Len(AxesOfType(ly.frags[b].layout, type_)) >= j}

\* C24: among the fragments with the same matched_xaxis (matched_yaxis)
\* key, in fragment order, the j-th x (y) axis of the first fragment that
\* has one gets no 'matches' and is the base, and the j-th axis of every
\* later fragment gets matches = the new trace name of the base; an axis
\* of a fragment without a key gets no 'matches'; the x and the y groups of
\* one key are apart.
C24_MatchedAxes ==
    \A a \in Resized : \A type_ \in {"xaxis", "yaxis"} :
        LET axes == AxesOfType(ly.frags[a].layout, type_)
            which == IF type_ = "xaxis" THEN "x" ELSE "y"
        IN \A j \in 1..Len(axes) :
              IF MatchKey(a, type_) = None \/ EarlierInGroup(a, type_, j) = {}
              THEN "matches" \notin DOMAIN axes[j].obj
              ELSE LET b == CHOOSE b \in EarlierInGroup(a, type_, j) :
                                \A c \in EarlierInGroup(a, type_, j) : b <= c
                       base == AxesOfType(ly.frags[b].layout, type_)[j]
                   IN /\ "matches" \in DOMAIN axes[j].obj
                      /\ axes[j].obj["matches"] = AxisName(which, base.name.num)
                      /\ "matches" \notin DOMAIN base.obj

\* three fragments, the first and the third in the x and the y group "k",
\* the second in none: the second x axis of the third matches x2, its first
\* y axis matches y, and the axes of the second match nothing
C24_Witness ==
    /\ Resized = {1, 2, 3}
    /\ ly.frags[1].arg = FigB /\ MatchKey(1, "xaxis") = Str("k") /\ MatchKey(1, "yaxis") = Str("k")
    /\ ly.frags[2].arg = FigA /\ MatchKey(2, "xaxis") = None /\ MatchKey(2, "yaxis") = None
    /\ ly.frags[3].arg = FigB /\ MatchKey(3, "xaxis") = Str("k") /\ MatchKey(3, "yaxis") = Str("k")
    /\ AxesOfType(ly.frags[3].layout, "xaxis")[2].name = AxisName("xaxis", 5)
    /\ AxesOfType(ly.frags[3].layout, "xaxis")[2].obj["matches"] = XName(2)
    /\ AxesOfType(ly.frags[3].layout, "yaxis")[1].obj["matches"] = YName(1)
    /\ "matches" \notin DOMAIN AxesOfType(ly.frags[2].layout, "xaxis")[1].obj

\* a figure that is already multi-panel
MultiPanel(arg) == arg.t = "fig" /\ arg.kind = "DeephavenFigure" /\ arg.has_subplots

\* C25: layer raises NotImplementedError at an argument that is a
\* multi-panel figure, and the figure it returns is multi-panel exactly
\* when it was composed with specs: a figure composed with specs is never
\* an input of a later composition, one composed without specs is not
\* refused.
C25_NoNesting ==
    /\ \A a \in 1..Len(ly.frags) :
          IF MultiPanel(ly.frags[a].arg)
          THEN a = Len(ly.frags) /\ ly.pc = "error" /\ ly.st.raised = "NotImplementedError"
          ELSE ~(a = Len(ly.frags) /\ ly.st.raised = "NotImplementedError")
    /\ ly.prev # None => ly.prev.has_subplots = ly.prev_specs
    /\ \A a \in 1..Len(ly.frags) :
          (ly.prev # None /\ ly.frags[a].arg = ly.prev /\ ly.prev_specs) =>
              ly.st.raised = "NotImplementedError"

\* the figure returned by a call with specs is the second argument of a
\* later call, after a chart, and layer has raised NotImplementedError
C25_Witness ==
    /\ ly.prev_specs /\ ly.prev # None
    /\ ly.prev.data = FigB.data
    /\ Len(ly.frags) = 2
    /\ ly.frags[1].arg = FigA
    /\ ly.frags[2].arg = ly.prev
    /\ ly.pc = "error" /\ ly.st.raised = "NotImplementedError"

\* the names of the traces of the figures among the first a arguments, in
\* argument order
RECURSIVE TracesUpTo(_)
TracesUpTo(a) ==
    IF a = 0 THEN <<>>
    ELSE TracesUpTo(a - 1)
         \o (IF ly.frags[a].arg.t = "fig"
             THEN [k \in 1..Len(ly.frags[a].arg.data) |-> ly.frags[a].arg.data[k].name]
             ELSE <<>>)

\* the data mappings of the DeephavenFigures among the first a arguments,
\* each moved by the number of traces of the arguments before its figure
RECURSIVE MappingsUpTo(_)
MappingsUpTo(a) ==
    IF a = 0 THEN <<>>
    ELSE MappingsUpTo(a - 1)
         \o (IF ly.frags[a].arg.t = "fig" /\ ly.frags[a].arg.kind = "DeephavenFigure"
             THEN [k \in 1..Len(ly.frags[a].arg.data_mappings) |->
                      [index |-> ly.frags[a].arg.data_mappings[k].index
                                    + Len(TracesUpTo(a - 1)),
                       of |-> ly.frags[a].arg.data_mappings[k].of]]
             ELSE <<>>)

\* C30: in layer the composed traces are the traces of the arguments in
\* argument order, falsy arguments skipped; the data mappings of every
\* DeephavenFigure are copied with the number of traces of all earlier
\* arguments as offset, and every data mapping of the composed figure
\* points at its own trace.
C30_TraceOrderAndOffsets ==
    ly.pc \in {"loop", "idle"} =>
        /\ [k \in 1..Len(ly.st.new_data) |-> ly.st.new_data[k].name]
              = TracesUpTo(Len(ly.frags))
        /\ ly.st.new_data_mappings = MappingsUpTo(Len(ly.frags))
        /\ \A k \in 1..Len(ly.st.new_data_mappings) :
              LET m == ly.st.new_data_mappings[k]
              IN /\ m.index + 1 \in 1..Len(ly.st.new_data)
                 /\ ly.st.new_data[m.index + 1].name = m.of
        /\ (ly.pc = "idle" /\ ly.prev # None) =>
              /\ ly.prev.data = ly.st.new_data
              /\ ly.prev.data_mappings = ly.st.new_data_mappings

\* a chart with two traces was layered and the result, with a plotly
\* figure before it, was layered again: the mappings of the two traces
\* point at the second and the third trace
C30_Witness ==
    /\ ly.pc = "loop" /\ ly.prev # None
    /\ Len(ly.frags) = 2
    /\ ly.frags[1].arg = FigC
    /\ ly.frags[2].arg = ly.prev
    /\ [k \in 1..Len(ly.st.new_data) |-> ly.st.new_data[k].name] = <<"c", "b1", "b2">>
    /\ ly.st.new_data_mappings = <<[index |-> 1, of |-> "b1"], [index |-> 2, of |-> "b2"]>>

(***************************************************************************)
(* The chart functions: validation and the argument groups                 *)
(* (plots/_private_utils.py, plots/scatter.py, plots/hierarchial.py,       *)
(* plugin/chart/plots/financial.py).  The result of a call is the          *)
(* arguments as the call leaves them, the exception it raised, and whether *)
(* the draw function was reached.                                          *)
(***************************************************************************)
\* validate_common_args: the exception raised, "no" for a Table
validate_common_args(args) == IF args["table"].t # "table" THEN "ValueError" ELSE "no"

\* args[new] = args.pop(old)
Rename(args, old, new) == Set(Pop(args, old), new, args[old])

SceneArgs == <<"range_x", "range_y", "range_z", "log_x", "log_y", "log_z">>

\* remap_scene_args
RECURSIVE remap_scene(_, _)
remap_scene(args, k) ==
    IF k > Len(SceneArgs) THEN args
    ELSE remap_scene(Rename(args, SceneArgs[k], SceneArgs[k] \o "_scene"), k + 1)
remap_scene_args(args) == remap_scene(args, 1)

\* the end of a chart function: validate_common_args, then generate_figure
validate_then_draw(args, draws) ==
    IF validate_common_args(args) # "no"
    THEN [args |-> args, raised |-> validate_common_args(args), drawn |-> FALSE]
    ELSE [args |-> args, raised |-> "no", drawn |-> draws]

\* scatter, scatter_polar and scatter_ternary; scatter_3d; ohlc; candlestick
scatter(args) ==
    validate_then_draw(Rename(args, "color_discrete_sequence",
                                    "color_discrete_sequence_marker"), TRUE)
scatter_3d(args) ==
    validate_then_draw(remap_scene_args(Rename(args, "color_discrete_sequence",
                                                     "color_discrete_sequence_marker")), TRUE)
ohlc(args) == validate_then_draw(Rename(args, "x", "x_finance"), TRUE)
candlestick(args) == validate_then_draw(Rename(args, "x", "x_finance"), TRUE)

\* treemap, sunburst, icicle, funnel and funnel_area call
\* process_args(args, groups, px_func=...), which has no parameter px_func
treemap(args) == [args |-> args, raised |-> "TypeError", drawn |-> FALSE]

\* calculate_mode
calculate_mode(base_mode, args) ==
    LET text == Truthy(Get(args, "text"))
        markers == base_mode = "lines"
                   /\ \E k \in {"markers", "symbol", "symbol_sequence", "text"} :
                         Truthy(Get(args, k))
    IN Str(base_mode \o (IF markers THEN "+markers" ELSE "") \o (IF text THEN "+text" ELSE ""))

\* append_prefixes on a SyncDict [d, pop_set]: every argument that is in
\* the dict is copied to <arg>_<prefix> and queued to be popped
RECURSIVE append_prefix(_, _, _)
append_prefix(arg, prefixes, sync_dict) ==
    IF prefixes = <<>> \/ arg \notin DOMAIN sync_dict.d THEN sync_dict
    ELSE append_prefix(arg, Tail(prefixes),
             [d |-> Set(sync_dict.d, arg \o "_" \o Head(prefixes), sync_dict.d[arg]),
              pop_set |-> sync_dict.pop_set \cup {arg}])
RECURSIVE append_prefixes(_, _, _)
append_prefixes(args, prefixes, sync_dict) ==
    IF args = <<>> THEN sync_dict
    ELSE append_prefixes(Tail(args), prefixes, append_prefix(Head(args), prefixes, sync_dict))

ColorArgs == <<"color_discrete_sequence", "attached_color">>
PatternArgs == <<"pattern_shape_sequence", "attached_pattern_shape">>

\* apply_args_groups
apply_args_groups(args, groups) ==
    LET SetMode(sd, on, mode) ==
            IF on THEN [sd EXCEPT !.d = Set(@, "mode", mode)] ELSE sd
        Prefix(sd, on, names, prefixes) ==
            IF on THEN append_prefixes(names, prefixes, sd) ELSE sd
        s0 == [d |-> args, pop_set |-> {}]
        s1 == Prefix(SetMode(s0, "scatter" \in groups, calculate_mode("markers", args)),
                     "scatter" \in groups, ColorArgs, <<"marker">>)
        s2 == Prefix(SetMode(s1, "line" \in groups, calculate_mode("lines", s1.d)),
                     "line" \in groups, ColorArgs, <<"marker", "line">>)
        s3 == Prefix(SetMode(s2, "ecdf" \in groups,
                             calculate_mode(IF Truthy(Get(s2.d, "lines"))
                                               \/ ~Truthy(Get(s2.d, "markers"))
                                            THEN "lines" ELSE "markers", s2.d)),
                     "ecdf" \in groups, ColorArgs, <<"marker", "line">>)
        s4 == IF "scene" \in groups THEN [s3 EXCEPT !.d = remap_scene_args(@)] ELSE s3
        s5 == Prefix(Prefix(s4, "bar" \in groups, ColorArgs, <<"marker">>),
                     "bar" \in groups, PatternArgs, <<"bar">>)
        s6 == Prefix(s5, "marker" \in groups, ColorArgs, <<"marker">>)
        s7 == Prefix(s6, "area" \in groups, PatternArgs, <<"area">>)
        s8 == IF "webgl" \in groups THEN [s7 EXCEPT !.d = Set(@, "render_mode", Str("webgl"))]
              ELSE s7
    IN [k \in DOMAIN s8.d \ s8.pop_set |-> s8.d[k]]

\* process_args(args, groups, add, pop, remap)
process_args(args, groups, add, pop, remap) ==
    IF validate_common_args(args) # "no"
    THEN [args |-> args, raised |-> validate_common_args(args), drawn |-> FALSE]
    ELSE LET a1 == apply_args_groups(args, groups)
             a2 == IF add THEN Set(a1, "orientation", Str("v")) ELSE a1
             a3 == IF pop THEN Pop(a2, "y") ELSE a2
             a4 == IF remap THEN Rename(a3, "x", "names") ELSE a3
         IN [args |-> Pop(a4, "unsafe_update_figure"), raised |-> "no", drawn |-> FALSE]

\* the chart functions and the argument groups they are called with
ChartFunctions ==
    {"scatter", "scatter_3d", "scatter_polar", "scatter_ternary", "ohlc", "candlestick",
     "treemap", "process_args"}
ArgGroups ==
    {{"scatter"}, {"line"}, {"ecdf"}, {"scene"}, {"bar"}, {"marker", "webgl"}, {"area"}}

\* the arguments of a call: the table is a table, a partitioned table,
\* None or a string
EntryTables == {Table3, TableByG, None, Str("table")}
EntryArgs ==
    {[k \in {"table", "x", "y", "color_discrete_sequence", "pattern_shape_sequence",
             "markers", "lines", "symbol", "text", "unsafe_update_figure"}
            \cup {SceneArgs[j] : j \in 1..Len(SceneArgs)} |->
         CASE k = "table" -> table
           [] k = "x" -> Str("n")
           [] k = "y" -> Str("m")
           [] k = "color_discrete_sequence" -> seq
           [] k = "markers" -> BoolVal(markers)
           [] k = "unsafe_update_figure" -> Str("default_callback")
           [] OTHER -> None] :
        table \in EntryTables, seq \in SeqInputs, markers \in BOOLEAN}

\* the call of a chart function
chart_call(c) ==
    CASE c.func \in {"scatter", "scatter_polar", "scatter_ternary"} -> scatter(c.args)
      [] c.func = "scatter_3d" -> scatter_3d(c.args)
      [] c.func = "ohlc" -> ohlc(c.args)
      [] c.func = "candlestick" -> candlestick(c.args)
      [] c.func = "treemap" -> treemap(c.args)
      [] OTHER -> process_args(c.args, c.groups, c.add, c.pop, c.remap)

InitEntry ==
    /\ call \in
          {[func |-> f, args |-> a, groups |-> {}, add |-> FALSE, pop |-> FALSE,
            remap |-> FALSE] : f \in ChartFunctions \ {"process_args"}, a \in EntryArgs}
          \cup {[func |-> "process_args", args |-> a, groups |-> g, add |-> add,
                 pop |-> pop, remap |-> remap] :
                   a \in EntryArgs, g \in ArgGroups, add \in BOOLEAN, pop \in BOOLEAN,
                   remap \in BOOLEAN}
    /\ cf = NoFigure
    /\ pm = NoManager /\ drawlog = <<>> /\ hp = NoHist /\ ly = NoLayer
    /\ sm = StyleManager_init(None, None)
    /\ last = NoCall
    /\ order = <<>>
    /\ lm = NoLong

\* a chart function is called and runs to its end
EntryCall ==
    /\ cf = NoFigure
    /\ \E r \in {chart_call(call)} :
          /\ cf' = [pc |-> IF r.raised = "no" THEN "done" ELSE "error",
                    raised |-> r.raised, args |-> r.args]
          /\ drawlog' = IF r.drawn THEN <<[call_args |-> r.args]>> ELSE <<>>
    /\ UNCHANGED <<sm, last, order, lm, call, pm, hp, ly>>

NextEntry == EntryCall

SpecEntry == InitEntry /\ [][NextEntry]_vars

\* C26: a chart call whose table is no Table has failed with TypeError,
\* with the call arguments as they were given and nothing drawn.
C26_TableTypeError ==
    (cf # NoFigure /\ call.args["table"].t # "table") =>
        /\ cf.raised = "TypeError"
        /\ cf.args = call.args
        /\ drawlog = <<>>

(***************************************************************************)
(* Contradictory style configurations and the composite style records      *)
(***************************************************************************)
\* the attribute is listed in the by_vars of the chart call
ListedInByVars(arg) ==
    LET by_vars == Get(call.args, "by_vars")
    IN \/ by_vars = Str(arg)
       \/ by_vars.t = "list" /\ \E j \in 1..Len(by_vars.s) : by_vars.s[j] = Str(arg)

\* the attribute of the call has the map 'identity' and is also requested
\* by-group
Contradictory(c) ==
    /\ c.arg \in StyleAttrs
    /\ c.before[MapArg(c.arg)] = Str("identity")
    /\ Truthy(Get(c.before, "by"))
    /\ \/ ListedInByVars(c.arg)
       \/ Truthy(c.before[PARTITION_ARGS[c.arg][1]])

\* C27: the resolution of an attribute whose map is 'identity' and that is
\* also requested by-group (listed in by_vars, or given a style sequence,
\* with a grouping column set) ends in ValueError.
C27_ContradictionRaises ==
    pm # NoManager =>
        \A j \in 1..Len(pm.calls) :
            Contradictory(pm.calls[j]) => pm.calls[j].raised = "ValueError"

\* C28: after process_partitions the map of every composite style record
\* {ls, map, keys} is None or a dict: not 'by', not 'identity', not a tuple.
C28_RecordMapResolved ==
    (Constructed /\ cf.pc = "ready") =>
        \A attr \in StyleAttrs :
            LET seq == pm.args[PARTITION_ARGS[attr][1]]
            IN seq.t = "rec" => seq.map.t \in {"none", "dict"}

(***************************************************************************)
(* The draws of a partitioned chart                                        *)
(***************************************************************************)
\* the rows of a table restricted to the columns cols
Project(table, cols) ==
    [r \in 1..Len(table.rows) |-> [c \in cols |-> table.rows[r][c]]]

\* the i-th draw received the i-th constituent, preprocessed or not (its
\* rows in the constituent's columns are the constituent's rows), and the
\* current partition is the key of every row of that constituent
DrawnOwnGroup(i) ==
    LET a == drawlog[i].call_args
        ct == pm.partitioned_table.constituent_tables[i]
        key_columns == pm.partitioned_table.key_columns
    IN /\ a["table"].t = "table"
       /\ Columns(ct) \subseteq Columns(a["table"].tbl)
       /\ Project(a["table"].tbl, Columns(ct)) = ct.rows
       /\ "current_partition" \in DOMAIN a
       /\ a["current_partition"].t = "dict"
       /\ DOMAIN a["current_partition"].d = key_columns
       /\ \A r \in 1..Len(ct.rows) : \A c \in key_columns :
             a["current_partition"].d[c] = CellVal(ct, ct.rows[r], c)

\* the role overrides of the i-th draw: a time chart names the duration
\* column of the table it is drawn with, a chart of a list of columns
\* names the value column of the table it is drawn with
OwnOverrides(i) ==
    LET a == drawlog[i].call_args
        table == a["table"].tbl
    IN /\ pm.preprocesser = "time" =>
             /\ "x_diff" \in DOMAIN a
             /\ a["x_diff"].t = "str"
             /\ a["x_diff"].v \in Columns(table)
             /\ \A r \in 1..Len(table.rows) :
                   table.rows[r][a["x_diff"].v] =
                       time_length(table.rows[r][a["x_start"].v], table.rows[r][a["x_end"].v])
       /\ (pm.preprocesser # "time" /\ DOMAIN pm.pivot_vars # {}) =>
             /\ a[pm.list_var] = Str(pm.pivot_vars["value"])
             /\ pm.pivot_vars["value"] \in Columns(table)

\* C29: the i-th draw of a partitioned chart receives the i-th constituent
\* (possibly preprocessed) with the key of that constituent as current
\* partition, no two draws share a key, and the role overrides are those of
\* the table drawn.
C29_DrawOwnPartition ==
    (Constructed /\ IsPartitioned(pm)) =>
        /\ \A i \in 1..Len(drawlog) : DrawnOwnGroup(i) /\ OwnOverrides(i)
        /\ \A i, j \in 1..Len(drawlog) :
              drawlog[i].call_args["current_partition"] =
                  drawlog[j].call_args["current_partition"] => i = j

\* the second group of a time chart partitioned by two columns has been drawn
C29_Witness ==
    /\ Constructed /\ IsPartitioned(pm)
    /\ Len(drawlog) >= 2
    /\ pm.preprocesser = "time"
    /\ Cardinality(pm.partitioned_table.key_columns) = 2

====
